---- MODULE Spec2Model ----
\* A model of send-to-caldav: the iCalendar encoder and the CalDAV client of
\* lib/caldav.ts.  Strings are sequences of Unicode code points, byte arrays
\* are sequences of 0..255.
EXTENDS Integers, Sequences, FiniteSets, TLC

VARIABLES
    line,       \* foldLine: the content line handed to it
    chunks,     \* foldLine: bytes.slice(offset, end) of every loop iteration
    folded,     \* foldLine: the string it returns
    foldPc,     \* "ready" before the call, "done" after it
    str,        \* escapeText: the title or description handed to it
    escaped,    \* escapeText: the string it returns
    escPc,      \* "ready" before the call, "done" after it
    event,      \* generateIcs: the CalendarEvent handed to it
    uid,        \* generateIcs: the uid handed to it
    now,        \* generateIcs: the time value new Date() reads
    icsText,    \* generateIcs: the string it returns
    icsPc,      \* "ready" before the call, "done" after it
    settings,   \* CalDavClient.settings
    calls,      \* the createEvent and checkConnection calls made so far
    requests,   \* every fetch() issued so far, in order
    store,      \* the remote collection: resource URL -> content
    form,       \* popup: the values of the form's inputs
    loading,    \* popup: the loading overlay is shown
    statusLine, \* popup: the status line
    handlers,   \* popup: the runs of the submit handler started so far
    page,       \* extraction: the document the injected function reads
    dateSuggestions,    \* what extractDateSuggestions' function returns
    descSuggestions,    \* what extractDescriptionSuggestions' function returns
    pagePc,     \* "ready" before the two functions ran, "done" after
    rawText,    \* truncateText: the text handed to it
    maxArg,  \* truncateText: the maxArg handed to it
    truncated,  \* truncateText: the string it returns
    truncPc,    \* "ready" before the call, then the name of the function called
    again,      \* truncateText: what it returns when handed its own result
    descInput,  \* popup: the value of the description field
    urlInput,   \* popup: the value of the URL field
    applied,    \* popup: the body handed to buildDescription last
    dom,        \* selection sibling: the document tree
    selection,  \* selection sibling: the start container of the selection
    siblingText,    \* what extractSelectionSiblingText's function returns
    selPc,      \* "ready" before the call, "done" after it
    inputsPc, \* popup inputs: "loading" until getSettings() resolved, then "wired" or "hidden"
    allDayChecked, \* popup inputs: allDayCheckbox.checked
    startInputType, \* popup inputs: startInput.type
    endInputType, \* popup inputs: endInput.type
    startInputValue, \* popup inputs: startInput.value
    endInputValue, \* popup inputs: endInput.value
    optionsForm, \* options page: the values of the three inputs
    storedSettings, \* options page: what storage.local holds, or none
    saveBtnDisabled, \* options page: saveBtn.disabled
    optionsStatus, \* options page: the status line
    optionsHandlers, \* options page: the runs of the submit handler
    statusTimers, \* options page: pending setTimeout callbacks
    clicks, \* context menu: the clicks handled so far, with what each handler called
    storageLocal, \* context menu: the two keys of browser.storage.local
    pendingSets, \* context menu: storage.local.set calls of the background not yet carried out
    extractions, \* context menu: the runs of extractSelectionSiblingText
    popupFocus, \* context menu: the popup has the focus
    changes, \* popup: storage.onChanged events not yet delivered
    domPc, \* popup: where the DOMContentLoaded handler stands
    got, \* popup: what the pending storage.local.get read
    isContextDataLoaded, \* popup: the flag of that name
    titleInput, \* popup: the value of the title field
    clock, \* Date.now()
    fills, \* popup: the context data and sibling texts put into the form
    chipLists, \* popup: the chips in suggestions-list and in desc-suggestions-list
    arrivals \* popup: the extractions in the order they resolved

foldVars == <<line, chunks, folded, foldPc>>
escVars == <<str, escaped, escPc>>
icsVars == <<event, uid, now, icsText, icsPc>>
clientVars == <<settings, calls, requests>>

serverVars == <<store>>
popupVars == <<form, loading, statusLine, handlers>>
pageVars == <<page, dateSuggestions, descSuggestions, pagePc>>
truncVars == <<rawText, maxArg, truncated, truncPc, again>>
descVars == <<descInput, urlInput, applied>>
selVars == <<dom, selection, siblingText, selPc>>

inputVars ==
    <<inputsPc, allDayChecked, startInputType, endInputType, startInputValue,
      endInputValue>>

optionsVars ==
    <<optionsForm, storedSettings, saveBtnDisabled, optionsStatus,
      optionsHandlers, statusTimers>>

contextVars ==
    <<clicks, storageLocal, pendingSets, extractions, popupFocus, changes,
      domPc, got, isContextDataLoaded, titleInput, clock, fills>>

chipVars == <<chipLists, arrivals>>

\* the state outside the encoder and the client
extVars == <<serverVars, popupVars, pageVars, truncVars, descVars, selVars,
             inputVars,
             optionsVars,
             contextVars,
             chipVars>>

vars == <<foldVars, escVars, icsVars, clientVars, extVars>>

\* the parts of the state a specification does not use stay as they start
FoldOff == line = <<>> /\ chunks = <<>> /\ folded = <<>> /\ foldPc = "off"
EscOff == str = <<>> /\ escaped = <<>> /\ escPc = "off"
IcsOff ==
    event = <<>> /\ uid = <<>> /\ now = <<>> /\ icsText = <<>> /\ icsPc = "off"
ClientOff == settings = <<>> /\ calls = <<>> /\ requests = <<>>
ServerOff == store = <<>>
PopupOff ==
    form = <<>> /\ loading = FALSE /\ statusLine = <<>> /\ handlers = <<>>
PageOff ==
    /\ page = <<>> /\ dateSuggestions = <<>> /\ descSuggestions = <<>>
    /\ pagePc = "off"
TruncOff ==
    /\ rawText = <<>> /\ maxArg = 0 /\ truncated = <<>> /\ truncPc = "off"
    /\ again = <<>>
DescOff == descInput = <<>> /\ urlInput = <<>> /\ applied = <<>>
SelOff == dom = <<>> /\ selection = 0 /\ siblingText = <<>> /\ selPc = "off"
InputOff ==
    /\ inputsPc = "off" /\ allDayChecked = FALSE
    /\ startInputType = "" /\ endInputType = ""
    /\ startInputValue = <<>> /\ endInputValue = <<>>
OptionsOff ==
    /\ optionsForm = <<>> /\ storedSettings = <<>> /\ saveBtnDisabled = FALSE
    /\ optionsStatus = <<>> /\ optionsHandlers = <<>> /\ statusTimers = 0
ContextOff ==
    /\ clicks = <<>> /\ storageLocal = <<>> /\ pendingSets = <<>>
    /\ extractions = <<>> /\ popupFocus = FALSE /\ changes = <<>>
    /\ domPc = "off" /\ got = <<>> /\ isContextDataLoaded = FALSE
    /\ titleInput = <<>> /\ clock = 0 /\ fills = <<>>
ChipOff == chipLists = <<>> /\ arrivals = <<>>
ExtOff ==
    /\ ServerOff /\ PopupOff /\ PageOff /\ TruncOff /\ DescOff /\ SelOff
    /\ InputOff /\ OptionsOff /\ ContextOff /\ ChipOff

----------------------------------------------------------------------------
\* Sequence helpers

Min(a, b) == IF a < b THEN a ELSE b

Rep(x, n) == [i \in 1..n |-> x]

Slice(s, from, to) == SubSeq(s, from + 1, to)   \* s.slice(from, to), 0-based

\* the concatenation of a sequence of sequences, by halves
RECURSIVE Flatten(_)
Flatten(ss) ==
    IF ss = <<>> THEN <<>>
    ELSE IF Len(ss) = 1 THEN ss[1]
    ELSE LET h == Len(ss) \div 2 IN
         Flatten(SubSeq(ss, 1, h)) \o Flatten(SubSeq(ss, h + 1, Len(ss)))

RECURSIVE Join(_, _)
Join(ss, sep) ==
    IF ss = <<>> THEN <<>>
    ELSE IF Len(ss) = 1 THEN ss[1]
    ELSE ss[1] \o sep \o Join(Tail(ss), sep)

StartsWith(s, p) == Len(s) >= Len(p) /\ SubSeq(s, 1, Len(p)) = p

Contains(s, p) ==
    \E i \in 0..(Len(s) - Len(p)) : SubSeq(s, i + 1, i + Len(p)) = p

LF == 10
SP == 32
BOM == 65279            \* U+FEFF
REPLACEMENT == 65533    \* U+FFFD

----------------------------------------------------------------------------
\* TextEncoder / TextDecoder (UTF-8), as foldLine uses them

\* new TextEncoder().encode: one code point to its UTF-8 bytes; a lone
\* surrogate is encoded as U+FFFD
EncodeCp(cp) ==
    IF cp < 128 THEN <<cp>>
    ELSE IF cp < 2048 THEN <<192 + (cp \div 64), 128 + (cp % 64)>>
    ELSE IF cp >= 55296 /\ cp <= 57343 THEN <<239, 191, 189>>
    ELSE IF cp < 65536 THEN
        <<224 + (cp \div 4096), 128 + ((cp \div 64) % 64), 128 + (cp % 64)>>
    ELSE
        <<240 + (cp \div 262144), 128 + ((cp \div 4096) % 64),
          128 + ((cp \div 64) % 64), 128 + (cp % 64)>>

TextEncode(s) == Flatten([i \in 1..Len(s) |-> EncodeCp(s[i])])

\* (b & 0xc0) === 0x80
IsContinuationByte(b) == (b \div 64) = 2

\* The UTF-8 decoder of the Encoding standard: the continuation bytes of the
\* sequence that starts at index i (1-based), `need` of them still missing.
\* The result is <<code point, index of the next unread byte>>.
RECURSIVE DecodeCont(_, _, _, _, _, _)
DecodeCont(bytes, i, need, cp, lower, upper) ==
    IF need = 0 THEN <<cp, i>>
    ELSE IF i > Len(bytes) THEN <<REPLACEMENT, i>>
    ELSE IF bytes[i] < lower \/ bytes[i] > upper THEN <<REPLACEMENT, i>>
    ELSE DecodeCont(bytes, i + 1, need - 1, cp * 64 + (bytes[i] % 64), 128, 191)

DecodeOne(bytes, i) ==
    LET b == bytes[i] IN
    IF b < 128 THEN <<b, i + 1>>
    ELSE IF b >= 194 /\ b <= 223 THEN
        DecodeCont(bytes, i + 1, 1, b % 32, 128, 191)
    ELSE IF b >= 224 /\ b <= 239 THEN
        DecodeCont(bytes, i + 1, 2, b % 16,
                   IF b = 224 THEN 160 ELSE 128, IF b = 237 THEN 159 ELSE 191)
    ELSE IF b >= 240 /\ b <= 244 THEN
        DecodeCont(bytes, i + 1, 3, b % 8,
                   IF b = 240 THEN 144 ELSE 128, IF b = 244 THEN 143 ELSE 191)
    ELSE <<REPLACEMENT, i + 1>>

RECURSIVE DecodeFrom(_, _)
DecodeFrom(bytes, i) ==
    IF i > Len(bytes) THEN <<>>
    ELSE LET r == DecodeOne(bytes, i) IN <<r[1]>> \o DecodeFrom(bytes, r[2])

\* new TextDecoder().decode(bytes): ignoreBOM is false and every call starts
\* a fresh decoder, so a leading U+FEFF of the input is dropped
TextDecode(bytes) ==
    LET s == DecodeFrom(bytes, 1) IN
    IF s # <<>> /\ s[1] = BOM THEN Tail(s) ELSE s

----------------------------------------------------------------------------
\* foldLine

FoldThreshold == 75
FoldFirstLimit == 75
FoldContLimit == 74

\* a plausible slip: the split is not moved off continuation bytes
FoldBackOff_NoAdjust(bytes, offset, end) == end

\* the inner while loop: move `end` back while bytes[end] is a continuation byte
RECURSIVE FoldBackOff(_, _, _)
FoldBackOff(bytes, offset, end) ==
    IF end > offset /\ end < Len(bytes) /\ IsContinuationByte(bytes[end + 1])
    THEN FoldBackOff(bytes, offset, end - 1)
    ELSE end

\* the outer while loop; parts holds the byte slices cut so far
RECURSIVE FoldLoop(_, _, _, _)
FoldLoop(bytes, offset, limit, parts) ==
    IF offset < Len(bytes) THEN
        LET end == FoldBackOff(bytes, offset, Min(offset + limit, Len(bytes))) IN
        FoldLoop(bytes, end, FoldContLimit,
                 Append(parts, Slice(bytes, offset, end)))
    ELSE parts

foldChunks(ln) ==
    LET bytes == TextEncode(ln) IN
    IF Len(bytes) <= FoldThreshold THEN <<>>
    ELSE FoldLoop(bytes, 0, FoldFirstLimit, <<>>)

foldLine(ln) ==
    LET bytes == TextEncode(ln) IN
    IF Len(bytes) <= FoldThreshold THEN ln
    ELSE LET parts == FoldLoop(bytes, 0, FoldFirstLimit, <<>>) IN
         Join([i \in 1..Len(parts) |-> TextDecode(parts[i])], <<LF, SP>>)

----------------------------------------------------------------------------
\* Content lines handed to foldLine: MinPrefix..MaxPrefix ASCII letters and
\* then up to MaxTail characters that repeat one of FoldPatterns, so that
\* every split position meets characters of 1, 2, 3 and 4 bytes in every
\* phase.

MinPrefix == 70
MaxPrefix == 76
MaxTail == 42

FoldPatterns ==
    { <<97>>,              \* a
      <<233>>,             \* e-acute, 2 bytes
      <<8364>>,            \* euro sign, 3 bytes
      <<128512>>,          \* U+1F600, 4 bytes
      <<BOM>>,             \* zero width no-break space, 3 bytes
      <<97, 233>>,
      <<8364, 97>>,
      <<128512, 233>>,
      <<32, 8364, 128512>>,
      <<97, 97, BOM>> }

FoldInput(a, p, t) == Rep(97, a) \o [i \in 1..t |-> p[((i - 1) % Len(p)) + 1]]

FoldInputs ==
    { FoldInput(a, p, t) : a \in MinPrefix..MaxPrefix, p \in FoldPatterns,
                           t \in 0..MaxTail }

FoldInit ==
    /\ EscOff
    /\ ExtOff
    /\ IcsOff
    /\ ClientOff
    /\ line \in FoldInputs
    /\ chunks = <<>>
    /\ folded = <<>>
    /\ foldPc = "ready"

FoldLine ==
    /\ foldPc = "ready"
    /\ chunks' = foldChunks(line)
    /\ folded' = foldLine(line)
    /\ foldPc' = "done"
    /\ UNCHANGED <<line, escVars, icsVars, clientVars, extVars>>

FoldNext == FoldLine

SpecFold == FoldInit /\ [][FoldNext]_vars

----------------------------------------------------------------------------
\* Reading a folded string back

\* the physical lines of a text: split at every line feed
PhysicalLines(s) ==
    LET lfs == {i \in 1..Len(s) : s[i] = LF}
        n == Cardinality(lfs) + 1
        Nth(k) == CHOOSE i \in lfs : Cardinality({j \in lfs : j <= i}) = k
        from(k) == IF k = 1 THEN 1 ELSE Nth(k - 1) + 1
        to(k) == IF k = n THEN Len(s) ELSE Nth(k) - 1
    IN [k \in 1..n |-> SubSeq(s, from(k), to(k))]

\* remove every line feed together with the single space that follows it
Unfold(s) ==
    LET phys == PhysicalLines(s) IN
    Flatten([k \in 1..Len(phys) |->
        IF k = 1 THEN phys[k]
        ELSE IF phys[k] # <<>> /\ phys[k][1] = SP THEN Tail(phys[k])
        ELSE <<LF>> \o phys[k]])

ByteLen(s) == Len(TextEncode(s))

\* C2: foldLine leaves a line of at most 75 UTF-8 bytes untouched; for a longer
\* line every chunk cut from the bytes is non-empty, the first has at most 75
\* bytes and every later one at most 74, no chunk starts with a continuation
\* byte (no split inside a multi-byte sequence), the chunks are the bytes of
\* the line in order, and no physical line of the result exceeds 75 bytes.
C2_FoldChunks ==
    foldPc = "done" =>
        LET bytes == TextEncode(line) IN
        IF Len(bytes) <= 75 THEN folded = line /\ chunks = <<>>
        ELSE /\ Len(chunks) >= 2
             /\ \A i \in 1..Len(chunks) :
                    /\ Len(chunks[i]) >= 1
                    /\ Len(chunks[i]) <= (IF i = 1 THEN 75 ELSE 74)
                    /\ ~IsContinuationByte(chunks[i][1])
             /\ Flatten(chunks) = bytes
             /\ LET phys == PhysicalLines(folded) IN
                /\ Len(phys) = Len(chunks)
                /\ \A i \in 1..Len(phys) : ByteLen(phys[i]) <= 75
                /\ \A i \in 2..Len(phys) : phys[i] # <<>> /\ phys[i][1] = SP

\* C2 witness: a line of more than 75 bytes was folded into three chunks or
\* more and a split had to be moved back off a multi-byte character
C2_Witness ==
    /\ foldPc = "done"
    /\ Len(chunks) >= 3
    /\ Len(chunks[1]) < 75
    /\ Len(chunks[2]) < 74

\* C3: removing each line feed and the space after it from foldLine's result
\* gives back the line
C3_FoldRoundTrip ==
    foldPc = "done" => Unfold(folded) = line

----------------------------------------------------------------------------
\* escapeText

BACKSLASH == 92
SEMICOLON == 59
COMMA == 44
LOWER_N == 110

\* a plausible slip: the character class misses the comma
EscapeSpecials_NoComma(s) ==
    Flatten([i \in 1..Len(s) |->
        IF s[i] \in {BACKSLASH, SEMICOLON} THEN <<BACKSLASH, s[i]>> ELSE <<s[i]>>])

\* str.replace(/[\;,]/g, (match) => `\\${match}`)
EscapeSpecials(s) ==
    Flatten([i \in 1..Len(s) |->
        IF s[i] \in {BACKSLASH, SEMICOLON, COMMA} THEN <<BACKSLASH, s[i]>>
        ELSE <<s[i]>>])

\* .replace(/\n/g, "\\n")
ReplaceNewlines(s) ==
    Flatten([i \in 1..Len(s) |->
        IF s[i] = LF THEN <<BACKSLASH, LOWER_N>> ELSE <<s[i]>>])

\* a plausible slip: the two replacements in the other order
escapeText_NewlineFirst(s) == EscapeSpecials(ReplaceNewlines(s))

escapeText(s) == ReplaceNewlines(EscapeSpecials(s))

\* Titles and descriptions: every string of at most MaxStrLen characters over
\* the characters the escape rules tell apart
MaxStrLen == 4

EscAlphabet == {BACKSLASH, SEMICOLON, COMMA, LF, LOWER_N, 97}

EscInputs == UNION {[1..n -> EscAlphabet] : n \in 0..MaxStrLen}

EscInit ==
    /\ FoldOff
    /\ ExtOff
    /\ IcsOff
    /\ ClientOff
    /\ str \in EscInputs
    /\ escaped = <<>>
    /\ escPc = "ready"

EscapeText ==
    /\ escPc = "ready"
    /\ escaped' = escapeText(str)
    /\ escPc' = "done"
    /\ UNCHANGED <<str, foldVars, icsVars, clientVars, extVars>>

EscNext == EscapeText

SpecEscape == EscInit /\ [][EscNext]_vars

\* reversing the escape rules, reading left to right: backslash+n is a
\* newline, backslash+c is c
RECURSIVE Unescape(_)
Unescape(s) ==
    IF s = <<>> THEN <<>>
    ELSE IF s[1] = BACKSLASH /\ Len(s) >= 2 THEN
        <<IF s[2] = LOWER_N THEN LF ELSE s[2]>> \o Unescape(SubSeq(s, 3, Len(s)))
    ELSE <<s[1]>> \o Unescape(Tail(s))

\* C4: escaping a title or description and then reversing the escape rules
\* gives back the original string
C4_EscapeRoundTrip ==
    escPc = "done" => Unescape(escaped) = str

\* C4 witness: a string with a literal backslash followed by n, and a newline
C4_Witness ==
    /\ escPc = "done"
    /\ Len(str) = 4
    /\ \E i \in 1..3 : str[i] = BACKSLASH /\ str[i + 1] = LOWER_N
    /\ \E i \in 1..4 : str[i] = LF

\* what one character of the input becomes in the escaped value
EscapedChar(c) ==
    IF c = BACKSLASH THEN <<92, 92>>
    ELSE IF c = SEMICOLON THEN <<92, 59>>
    ELSE IF c = COMMA THEN <<92, 44>>
    ELSE IF c = LF THEN <<92, 110>>
    ELSE <<c>>

\* C5: in the escaped value every backslash, semicolon and comma of the input
\* is prefixed with one backslash and every newline has become backslash+n,
\* nothing else is changed (a backslash that stands for a newline is not escaped
\* again), and the value holds no raw newline
C5_EscapeRules ==
    escPc = "done" =>
        /\ escaped = Flatten([i \in 1..Len(str) |-> EscapedChar(str[i])])
        /\ \A i \in 1..Len(escaped) : escaped[i] # LF

\* C5 witness: a string with a backslash, a newline and a comma was escaped
C5_Witness ==
    /\ escPc = "done"
    /\ {BACKSLASH, LF, COMMA} \subseteq {str[i] : i \in 1..Len(str)}

----------------------------------------------------------------------------
\* Date: a time value is [days, secs, ms], the days since 1970-01-01 (UTC),
\* the second of that day and the millisecond of that second

DASH == 45
COLON == 58
DOT == 46
PLUS == 43
UPPER_T == 84
UPPER_Z == 90
ZERO == 48

RECURSIVE NumOf(_)
NumOf(s) ==
    IF s = <<>> THEN 0
    ELSE NumOf(SubSeq(s, 1, Len(s) - 1)) * 10 + (s[Len(s)] - ZERO)

RECURSIVE Pow10(_)
Pow10(k) == IF k = 0 THEN 1 ELSE 10 * Pow10(k - 1)

\* n in decimal, padded with zeros to w digits
Pad(n, w) == [i \in 1..w |-> ZERO + ((n \div Pow10(w - i)) % 10)]

\* MakeDay: the day number of year y, month m (1..12), day d of the
\* proleptic Gregorian calendar; d may lie outside the month
DaysFromCivil(y, m, d) ==
    LET yy == IF m <= 2 THEN y - 1 ELSE y
        era == yy \div 400
        yoe == yy - era * 400
        mp == IF m > 2 THEN m - 3 ELSE m + 9
        doy == ((153 * mp + 2) \div 5) + d - 1
        doe == yoe * 365 + (yoe \div 4) - (yoe \div 100) + doy
    IN era * 146097 + doe - 719468

\* YearFromTime, MonthFromTime, DateFromTime
CivilFromDays(z) ==
    LET zz == z + 719468
        era == zz \div 146097
        doe == zz - era * 146097
        yoe == (doe - (doe \div 1460) + (doe \div 36524) - (doe \div 146096)) \div 365
        doy == doe - (365 * yoe + (yoe \div 4) - (yoe \div 100))
        mp == (5 * doy + 2) \div 153
        d == doy - ((153 * mp + 2) \div 5) + 1
        m == IF mp < 10 THEN mp + 3 ELSE mp - 9
        y == yoe + era * 400 + (IF m <= 2 THEN 1 ELSE 0)
    IN [y |-> y, m |-> m, d |-> d]

\* new Date(dateStr) for the ISO formats: [+-YY]YYYY-MM-DD, alone (midnight
\* UTC) or followed by THH:MM:SS, optional .sss, and Z or +-HH:MM
ParseDate(s) ==
    LET ext == s[1] \in {PLUS, DASH}
        yl == IF ext THEN 7 ELSE 4
        y == IF ext THEN (IF s[1] = DASH THEN -1 ELSE 1) * NumOf(SubSeq(s, 2, 7))
             ELSE NumOf(SubSeq(s, 1, 4))
        mo == NumOf(SubSeq(s, yl + 2, yl + 3))
        d == NumOf(SubSeq(s, yl + 5, yl + 6))
        hasTime == Len(s) > yl + 6
        hh == IF hasTime THEN NumOf(SubSeq(s, yl + 8, yl + 9)) ELSE 0
        mi == IF hasTime THEN NumOf(SubSeq(s, yl + 11, yl + 12)) ELSE 0
        ss == IF hasTime THEN NumOf(SubSeq(s, yl + 14, yl + 15)) ELSE 0
        hasMs == hasTime /\ s[yl + 16] = DOT
        ms == IF hasMs THEN NumOf(SubSeq(s, yl + 17, yl + 19)) ELSE 0
        zi == IF hasMs THEN yl + 20 ELSE yl + 16
        off == IF ~hasTime \/ s[zi] = UPPER_Z THEN 0
               ELSE (IF s[zi] = DASH THEN -1 ELSE 1)
                    * (NumOf(SubSeq(s, zi + 1, zi + 2)) * 60
                       + NumOf(SubSeq(s, zi + 4, zi + 5)))
        total == hh * 3600 + mi * 60 + ss - off * 60
    IN [days |-> DaysFromCivil(y, mo, d) + (total \div 86400),
        secs |-> total % 86400,
        ms |-> ms]

\* Date.prototype.toISOString: four digits for the years 0..9999, a sign and
\* six digits for the others
IsoOfCivil(c, tv) ==
    LET year == IF c.y >= 0 /\ c.y <= 9999 THEN Pad(c.y, 4)
                ELSE IF c.y < 0 THEN <<DASH>> \o Pad(0 - c.y, 6)
                ELSE <<PLUS>> \o Pad(c.y, 6)
    IN year \o <<DASH>> \o Pad(c.m, 2) \o <<DASH>> \o Pad(c.d, 2) \o <<UPPER_T>>
       \o Pad(tv.secs \div 3600, 2) \o <<COLON>> \o Pad((tv.secs \div 60) % 60, 2)
       \o <<COLON>> \o Pad(tv.secs % 60, 2) \o <<DOT>> \o Pad(tv.ms, 3)
       \o <<UPPER_Z>>

ToISOString(tv) == IsoOfCivil(CivilFromDays(tv.days), tv)

GetUTCDate(tv) == CivilFromDays(tv.days).d

\* Date.prototype.setUTCDate: MakeDay(year, month, dt) keeps the time of day
SetUTCDate(tv, dt) ==
    LET c == CivilFromDays(tv.days) IN
    [tv EXCEPT !.days = DaysFromCivil(c.y, c.m, 1) + dt - 1]

NotDashColon(c) == c \notin {DASH, COLON}
NotDash(c) == c # DASH

\* s.split(".")[0]
BeforeDot(s) ==
    IF \E i \in 1..Len(s) : s[i] = DOT
    THEN SubSeq(s, 1, (CHOOSE i \in 1..Len(s) :
                          s[i] = DOT /\ \A j \in 1..(i - 1) : s[j] # DOT) - 1)
    ELSE s

\* a plausible slip: the digits of the string are kept, no conversion to UTC
formatDate_NoConversion(dateStr) ==
    SelectSeq(SubSeq(dateStr, 1, 19), NotDashColon) \o <<UPPER_Z>>

formatDate(dateStr) ==
    LET date == ParseDate(dateStr) IN
    BeforeDot(SelectSeq(ToISOString(date), NotDashColon)) \o <<UPPER_Z>>

formatDateOnly(dateStr) ==
    LET datePart == IF Len(dateStr) = 10 THEN dateStr
                    ELSE Slice(ToISOString(ParseDate(dateStr)), 0, 10)
    IN SelectSeq(datePart, NotDash)

\* "T00:00:00Z"
S_MIDNIGHT_Z == <<84, 48, 48, 58, 48, 48, 58, 48, 48, 90>>

\* a plausible slip: the end date is rendered as it is stored
formatDateOnlyExclusive_Inclusive(dateStr) == formatDateOnly(dateStr)

formatDateOnlyExclusive(dateStr) ==
    LET datePart == IF Len(dateStr) = 10 THEN dateStr
                    ELSE Slice(ToISOString(ParseDate(dateStr)), 0, 10)
        d == ParseDate(datePart \o S_MIDNIGHT_Z)
        next == SetUTCDate(d, GetUTCDate(d) + 1)
    IN SelectSeq(Slice(ToISOString(next), 0, 10), NotDash)

----------------------------------------------------------------------------
\* generateIcs

\* "BEGIN:VCALENDAR"
S_BEGIN_VCALENDAR == <<66, 69, 71, 73, 78, 58, 86, 67, 65, 76, 69, 78, 68, 65, 82>>
\* "VERSION:2.0"
S_VERSION == <<86, 69, 82, 83, 73, 79, 78, 58, 50, 46, 48>>
\* "PRODID:-//SendToCal//EN"
S_PRODID == <<80, 82, 79, 68, 73, 68, 58, 45, 47, 47, 83, 101, 110, 100, 84, 111, 67, 97, 108, 47, 47, 69, 78>>
\* "BEGIN:VEVENT"
S_BEGIN_VEVENT == <<66, 69, 71, 73, 78, 58, 86, 69, 86, 69, 78, 84>>
\* "UID:"
S_UID == <<85, 73, 68, 58>>
\* "DTSTAMP:"
S_DTSTAMP == <<68, 84, 83, 84, 65, 77, 80, 58>>
\* "DTSTART;VALUE=DATE:"
S_DTSTART_DATE == <<68, 84, 83, 84, 65, 82, 84, 59, 86, 65, 76, 85, 69, 61, 68, 65, 84, 69, 58>>
\* "DTSTART:"
S_DTSTART == <<68, 84, 83, 84, 65, 82, 84, 58>>
\* "DTEND;VALUE=DATE:"
S_DTEND_DATE == <<68, 84, 69, 78, 68, 59, 86, 65, 76, 85, 69, 61, 68, 65, 84, 69, 58>>
\* "DTEND:"
S_DTEND == <<68, 84, 69, 78, 68, 58>>
\* "SUMMARY:"
S_SUMMARY == <<83, 85, 77, 77, 65, 82, 89, 58>>
\* "DESCRIPTION:"
S_DESCRIPTION == <<68, 69, 83, 67, 82, 73, 80, 84, 73, 79, 78, 58>>
\* "URL:"
S_URL == <<85, 82, 76, 58>>
\* "END:VEVENT"
S_END_VEVENT == <<69, 78, 68, 58, 86, 69, 86, 69, 78, 84>>
\* "END:VCALENDAR"
S_END_VCALENDAR == <<69, 78, 68, 58, 86, 67, 65, 76, 69, 78, 68, 65, 82>>

\* an optional field (description?, url?): absent or one string
None == <<>>
Some(s) == <<s>>
\* what `if (x)` sees: a string that is there and is not empty
Truthy(o) == o # None /\ o[1] # <<>>

\* a plausible slip: the DESCRIPTION line is pushed whatever its value
DescriptionLines_Always(description) == <<S_DESCRIPTION \o description>>

\* if (description) lines.push(`DESCRIPTION:${description}`)
DescriptionLines(description) ==
    IF description # <<>> THEN <<S_DESCRIPTION \o description>> ELSE <<>>

\* if (event.url) lines.push(`URL:${event.url}`)
UrlLines(ev) == IF Truthy(ev.url) THEN <<S_URL \o ev.url[1]>> ELSE <<>>

\* the lines array of generateIcs, before folding; t is what new Date() reads
IcsLines(ev, id, t) ==
    LET dtStamp == formatDate(ToISOString(t))
        dtStartProp == IF ev.allDay THEN S_DTSTART_DATE \o formatDateOnly(ev.start)
                       ELSE S_DTSTART \o formatDate(ev.start)
        dtEndProp == IF ev.allDay
                     THEN S_DTEND_DATE \o formatDateOnlyExclusive(ev.end)
                     ELSE S_DTEND \o formatDate(ev.end)
        summary == escapeText(ev.title)
        description == IF Truthy(ev.description) THEN escapeText(ev.description[1])
                       ELSE <<>>
    IN << S_BEGIN_VCALENDAR, S_VERSION, S_PRODID, S_BEGIN_VEVENT,
          S_UID \o id, S_DTSTAMP \o dtStamp, dtStartProp, dtEndProp,
          S_SUMMARY \o summary >>
       \o DescriptionLines(description)
       \o UrlLines(ev)
       \o <<S_END_VEVENT, S_END_VCALENDAR>>

\* lines.map(foldLine)
FoldLines(lines) == [i \in 1..Len(lines) |-> foldLine(lines[i])]

generateIcs(ev, id, t) == Join(FoldLines(IcsLines(ev, id, t)), <<LF>>)

----------------------------------------------------------------------------
\* The events handed to generateIcs

IsLeapYear(y) == (y % 4 = 0 /\ y % 100 # 0) \/ y % 400 = 0

DaysInMonth(y, m) ==
    IF m = 2 THEN (IF IsLeapYear(y) THEN 29 ELSE 28)
    ELSE IF m \in {4, 6, 9, 11} THEN 30 ELSE 31

\* the value of an <input type="date">: YYYY-MM-DD
IsoDate(y, m, d) == Pad(y, 4) \o <<DASH>> \o Pad(m, 2) \o <<DASH>> \o Pad(d, 2)

\* an ISO instant: with offset 0 the form toISOString gives (.000Z), otherwise
\* the local fields followed by +-HH:MM (off is in minutes)
IsoInstant(f) ==
    IsoDate(f.y, f.m, f.d) \o <<UPPER_T>> \o Pad(f.h, 2) \o <<COLON>>
    \o Pad(f.mi, 2) \o <<COLON>> \o Pad(f.s, 2)
    \o (IF f.off = 0 THEN <<DOT, ZERO, ZERO, ZERO, UPPER_Z>>
        ELSE <<IF f.off < 0 THEN DASH ELSE PLUS>>
             \o Pad((IF f.off < 0 THEN 0 - f.off ELSE f.off) \div 60, 2)
             \o <<COLON>>
             \o Pad((IF f.off < 0 THEN 0 - f.off ELSE f.off) % 60, 2))

Years == {1, 1900, 2000, 2023, 2024, 9999}

\* the first and the last day of every month, and 28 February
AllDayFields ==
    { f \in Years \X (1..12) \X (1..31) :
        f[3] \in {1, DaysInMonth(f[1], f[2])} \/ (f[2] = 2 /\ f[3] = 28) }

AllDayDates == { IsoDate(f[1], f[2], f[3]) : f \in AllDayFields }

AllDayStarts == {IsoDate(1, 1, 1), IsoDate(2024, 2, 29), IsoDate(9999, 12, 31)}

TimedDates ==
    { <<1, 1, 1>>, <<2023, 12, 31>>, <<2024, 1, 1>>, <<2024, 2, 29>>,
      <<2024, 3, 1>>, <<9999, 12, 31>> }
TimesOfDay == { <<0, 0, 0>>, <<12, 34, 56>>, <<23, 59, 59>> }
Offsets == {0, 120, -300, 330, -720, 840}

Instants ==
    { IsoInstant([y |-> dt[1], m |-> dt[2], d |-> dt[3],
                  h |-> tm[1], mi |-> tm[2], s |-> tm[3], off |-> o]) :
        dt \in TimedDates, tm \in TimesOfDay, o \in Offsets }

TimedEnds ==
    { IsoInstant([y |-> 2024, m |-> 3, d |-> 1, h |-> 0, mi |-> 30, s |-> 0, off |-> 0]),
      IsoInstant([y |-> 9999, m |-> 12, d |-> 31, h |-> 20, mi |-> 0, s |-> 0, off |-> -300]),
      IsoInstant([y |-> 2024, m |-> 1, d |-> 1, h |-> 0, mi |-> 15, s |-> 0, off |-> 330]) }

\* "Team meeting"
T_SHORT == <<84, 101, 97, 109, 32, 109, 101, 101, 116, 105, 110, 103>>
\* a;b,c\d, a newline, END:VEVENT
T_SPECIAL == <<97, 59, 98, 44, 99, 92, 100, 10, 69, 78, 68, 58, 86, 69, 86, 69, 78, 84>>
\* 50 times e-acute and euro sign: 250 bytes
T_LONG == [i \in 1..100 |-> IF i % 2 = 1 THEN 233 ELSE 8364]
\* "Bring: slides, notes; laptop", a newline, "BEGIN:VEVENT" and 60 letters
D_TEXT ==
    <<66, 114, 105, 110, 103, 58, 32, 115, 108, 105, 100, 101, 115, 44, 32, 110,
      111, 116, 101, 115, 59, 32, 108, 97, 112, 116, 111, 112, 10,
      66, 69, 71, 73, 78, 58, 86, 69, 86, 69, 78, 84>> \o Rep(120, 60)
\* "https://example.org/events/42"
U_SHORT == <<104, 116, 116, 112, 115, 58, 47, 47, 101, 120, 97, 109, 112, 108, 101, 46, 111, 114, 103, 47, 101, 118, 101, 110, 116, 115, 47, 52, 50>>
U_LONG == U_SHORT \o Rep(55, 70)

Titles == {<<>>, T_SHORT, T_SPECIAL, T_LONG}
Descriptions == {None, Some(<<>>), Some(T_SPECIAL), Some(D_TEXT)}
Urls == {None, Some(<<>>), Some(U_SHORT), Some(U_LONG)}

\* 3b241101-e2bb-4255-8caf-4136c566a962 and 9f8b7c6d-0000-4abc-9def-001122334455
UID_A == <<51, 98, 50, 52, 49, 49, 48, 49, 45, 101, 50, 98, 98, 45, 52, 50, 53, 53, 45, 56, 99, 97, 102, 45, 52, 49, 51, 54, 99, 53, 54, 54, 97, 57, 54, 50>>
UID_B == <<57, 102, 56, 98, 55, 99, 54, 100, 45, 48, 48, 48, 48, 45, 52, 97, 98, 99, 45, 57, 100, 101, 102, 45, 48, 48, 49, 49, 50, 50, 51, 51, 52, 52, 53, 53>>
Uids == {UID_A, UID_B}

\* what the clock reads, 2024-02-29T23:59:59.999Z and 2026-11-03T08:05:09.040Z,
\* each with the way a DTSTAMP value writes it: "20240229T235959Z" and
\* "20261103T080509Z"
NowCases ==
    { << [days |-> DaysFromCivil(2024, 2, 29), secs |-> 86399, ms |-> 999],
         <<50, 48, 50, 52, 48, 50, 50, 57, 84, 50, 51, 53, 57, 53, 57, 90>> >>,
      << [days |-> DaysFromCivil(2026, 11, 3), secs |-> 29109, ms |-> 40],
         <<50, 48, 50, 54, 49, 49, 48, 51, 84, 48, 56, 48, 53, 48, 57, 90>> >> }

Nows == { c[1] : c \in NowCases }

Event(title, start, end, allDay, description, url) ==
    [title |-> title, start |-> start, end |-> end, allDay |-> allDay,
     description |-> description, url |-> url]

\* every pair of dates or instants with one text, and every text with a few
\* dates
IcsEvents ==
    { Event(T_SHORT, s, e, TRUE, None, None) : s \in AllDayStarts, e \in AllDayDates }
    \cup { Event(T_SHORT, s, e, FALSE, None, None) : s \in Instants, e \in TimedEnds }
    \cup { Event(ti, IsoDate(2024, 2, 28), IsoDate(2024, 2, 29), TRUE, de, u) :
             ti \in Titles, de \in Descriptions, u \in Urls }
    \cup { Event(ti, s, s, FALSE, de, u) :
             ti \in Titles, de \in Descriptions, u \in Urls, s \in TimedEnds }

IcsInit ==
    /\ FoldOff
    /\ ExtOff
    /\ EscOff
    /\ ClientOff
    /\ event \in IcsEvents
    /\ uid \in Uids
    /\ now \in Nows
    /\ icsText = <<>>
    /\ icsPc = "ready"

GenerateIcs ==
    /\ icsPc = "ready"
    /\ icsText' = generateIcs(event, uid, now)
    /\ icsPc' = "done"
    /\ UNCHANGED <<event, uid, now, foldVars, escVars, clientVars, extVars>>

IcsNext == GenerateIcs

SpecIcs == IcsInit /\ [][IcsNext]_vars

----------------------------------------------------------------------------
\* Reading the encoded text back

\* the content lines of an encoded text: unfolded, then split at line feeds
LogicalLines(text) == PhysicalLines(Unfold(text))

\* the calendar, day by day
NextDay(dt) ==
    IF dt[3] < DaysInMonth(dt[1], dt[2]) THEN <<dt[1], dt[2], dt[3] + 1>>
    ELSE IF dt[2] < 12 THEN <<dt[1], dt[2] + 1, 1>>
    ELSE <<dt[1] + 1, 1, 1>>

PrevDay(dt) ==
    IF dt[3] > 1 THEN <<dt[1], dt[2], dt[3] - 1>>
    ELSE IF dt[2] > 1 THEN <<dt[1], dt[2] - 1, DaysInMonth(dt[1], dt[2] - 1)>>
    ELSE <<dt[1] - 1, 12, 31>>

\* a date written as digits: YYYYMMDD, a year after 9999 with all its digits
DateDigits(dt) ==
    (IF dt[1] <= 9999 THEN Pad(dt[1], 4) ELSE Pad(dt[1], 5))
    \o Pad(dt[2], 2) \o Pad(dt[3], 2)

\* the year, month and day a YYYY-MM-DD... string names
ReadDate(s) ==
    <<NumOf(SubSeq(s, 1, 4)), NumOf(SubSeq(s, 6, 7)), NumOf(SubSeq(s, 9, 10))>>

\* the UTC date and the YYYYMMDDTHHMMSSZ text of the instant an ISO string
\* YYYY-MM-DDTHH:MM:SS(.sssZ | +-HH:MM) names
UtcOf(s) ==
    LET off == IF s[20] = DOT THEN 0
               ELSE (IF s[20] = DASH THEN -1 ELSE 1)
                    * (NumOf(SubSeq(s, 21, 22)) * 60 + NumOf(SubSeq(s, 24, 25)))
        total == NumOf(SubSeq(s, 12, 13)) * 3600 + NumOf(SubSeq(s, 15, 16)) * 60
                 + NumOf(SubSeq(s, 18, 19)) - off * 60
        dt == IF total < 0 THEN PrevDay(ReadDate(s))
              ELSE IF total >= 86400 THEN NextDay(ReadDate(s))
              ELSE ReadDate(s)
        sod == total % 86400
    IN [year |-> dt[1],
        text |-> DateDigits(dt) \o <<UPPER_T>> \o Pad(sod \div 3600, 2)
                 \o Pad((sod \div 60) % 60, 2) \o Pad(sod % 60, 2) \o <<UPPER_Z>>]

LastDate == IsoDate(9999, 12, 31)

AllDayLinesOk ==
    LET ll == LogicalLines(icsText) IN
    /\ ll[7] = S_DTSTART_DATE \o SubSeq(event.start, 1, 4)
               \o SubSeq(event.start, 6, 7) \o SubSeq(event.start, 9, 10)
    /\ ll[8] = S_DTEND_DATE \o DateDigits(NextDay(ReadDate(event.end)))

TimedStartOk ==
    LogicalLines(icsText)[7] = S_DTSTART \o UtcOf(event.start).text

TimedEndOk ==
    LogicalLines(icsText)[8] = S_DTEND \o UtcOf(event.end).text

StampOk ==
    \A c \in NowCases :
        now = c[1] => LogicalLines(icsText)[6] = S_DTSTAMP \o c[2]

HasDescription == Truthy(event.description)
HasUrl == Truthy(event.url)

CountLines(ll, ln) == Cardinality({i \in 1..Len(ll) : ll[i] = ln})

\* C7: the encoded text is the lines BEGIN:VCALENDAR, VERSION:2.0, PRODID,
\* BEGIN:VEVENT, UID, DTSTAMP, start, end, SUMMARY, then DESCRIPTION only for a
\* non-empty description, then URL only for an event with a url, then
\* END:VEVENT, END:VCALENDAR, in this order and each once
C7_LineOrder ==
    icsPc = "done" =>
        LET ll == LogicalLines(icsText)
            nd == IF HasDescription THEN 1 ELSE 0
            nu == IF HasUrl THEN 1 ELSE 0
        IN /\ Len(ll) = 11 + nd + nu
           /\ ll[1] = S_BEGIN_VCALENDAR
           /\ ll[2] = S_VERSION
           /\ ll[3] = S_PRODID
           /\ ll[4] = S_BEGIN_VEVENT
           /\ ll[5] = S_UID \o uid
           /\ StartsWith(ll[6], S_DTSTAMP)
           /\ StartsWith(ll[7], S_DTSTART) \/ StartsWith(ll[7], S_DTSTART_DATE)
           /\ StartsWith(ll[8], S_DTEND) \/ StartsWith(ll[8], S_DTEND_DATE)
           /\ StartsWith(ll[9], S_SUMMARY)
           /\ HasDescription => StartsWith(ll[10], S_DESCRIPTION)
           /\ HasUrl => ll[10 + nd] = S_URL \o event.url[1]
           /\ ll[10 + nd + nu] = S_END_VEVENT
           /\ ll[11 + nd + nu] = S_END_VCALENDAR
           /\ \A ln \in {S_BEGIN_VCALENDAR, S_VERSION, S_PRODID, S_BEGIN_VEVENT,
                         S_END_VEVENT, S_END_VCALENDAR} :
                  CountLines(PhysicalLines(icsText), ln) = 1
           /\ \A pre \in {S_UID, S_DTSTAMP, S_SUMMARY} :
                  Cardinality({i \in 1..Len(ll) : StartsWith(ll[i], pre)}) = 1

\* C7 witness: an event with a description and a url whose lines were folded
C7_Witness ==
    /\ icsPc = "done"
    /\ HasDescription /\ HasUrl
    /\ Len(LogicalLines(icsText)) = 13
    /\ Len(PhysicalLines(icsText)) > 15

----------------------------------------------------------------------------
\* CalDavClient: checkConnection and createEvent

\* ".ics"
S_ICS == <<46, 105, 99, 115>>
\* "Failed to create event: "
S_FAILED == <<70, 97, 105, 108, 101, 100, 32, 116, 111, 32, 99, 114, 101, 97,
    116, 101, 32, 101, 118, 101, 110, 116, 58, 32>>
\* "text/calendar; charset=utf-8"
S_CT_CALENDAR == <<116, 101, 120, 116, 47, 99, 97, 108, 101, 110, 100, 97,
    114, 59, 32, 99, 104, 97, 114, 115, 101, 116, 61, 117, 116, 102, 45, 56>>
\* "application/xml; charset=utf-8"
S_CT_XML == <<97, 112, 112, 108, 105, 99, 97, 116, 105, 111, 110, 47, 120,
    109, 108, 59, 32, 99, 104, 97, 114, 115, 101, 116, 61, 117, 116, 102, 45,
    56>>
\* the body of the PROPFIND request (an XML document asking for D:resourcetype)
S_PROPFIND_BODY == <<60, 63, 120, 109, 108, 32, 118, 101, 114, 115, 105, 111,
    110, 61, 34, 49, 46, 48, 34, 32, 101, 110, 99, 111, 100, 105, 110, 103,
    61, 34, 117, 116, 102, 45, 56, 34, 32, 63, 62, 10, 60, 68, 58, 112, 114,
    111, 112, 102, 105, 110, 100, 32, 120, 109, 108, 110, 115, 58, 68, 61, 34,
    68, 65, 86, 58, 34, 62, 10, 32, 32, 60, 68, 58, 112, 114, 111, 112, 62,
    10, 32, 32, 32, 32, 60, 68, 58, 114, 101, 115, 111, 117, 114, 99, 101,
    116, 121, 112, 101, 47, 62, 10, 32, 32, 60, 47, 68, 58, 112, 114, 111,
    112, 62, 10, 60, 47, 68, 58, 112, 114, 111, 112, 102, 105, 110, 100, 62>>
SLASH == 47

RECURSIVE NumberToString(_)
NumberToString(n) ==
    IF n < 10 THEN <<ZERO + n>>
    ELSE NumberToString(n \div 10) \o <<ZERO + (n % 10)>>

EndsWith(s, p) ==
    Len(s) >= Len(p) /\ SubSeq(s, Len(s) - Len(p) + 1, Len(s)) = p

\* the constructor's authHeader: Basic and the credentials (their base64 form
\* is not spelled out)
AuthHeader(st) == <<"Basic", st.username, st.password>>

\* a plausible slip: the slash is appended whatever the URL ends with
BaseUrl_AlwaysSlash(serverUrl) == serverUrl \o <<SLASH>>

\* serverUrl.endsWith("/") ? serverUrl : `${serverUrl}/`
BaseUrl(serverUrl) ==
    IF EndsWith(serverUrl, <<SLASH>>) THEN serverUrl ELSE serverUrl \o <<SLASH>>

\* a plausible slip: the PUT is sent without its If-None-Match header
CreateEventRequest_NoPrecondition(st, ev, id, t) ==
    [method |-> "PUT",
     url |-> BaseUrl(st.serverUrl) \o id \o S_ICS,
     headers |-> [Authorization |-> AuthHeader(st),
                  ContentType |-> S_CT_CALENDAR,
                  IfNoneMatch |-> ""],
     body |-> generateIcs(ev, id, t)]

\* the fetch() of createEvent; id is what generateUid returned, t what new
\* Date() reads
CreateEventRequest(st, ev, id, t) ==
    [method |-> "PUT",
     url |-> BaseUrl(st.serverUrl) \o id \o S_ICS,
     headers |-> [Authorization |-> AuthHeader(st),
                  ContentType |-> S_CT_CALENDAR,
                  IfNoneMatch |-> "*"],
     body |-> generateIcs(ev, id, t)]

\* the fetch() of checkConnection
CheckConnectionRequest(st) ==
    [method |-> "PROPFIND",
     url |-> st.serverUrl,
     headers |-> [Authorization |-> AuthHeader(st),
                  Depth |-> "0",
                  ContentType |-> S_CT_XML],
     body |-> S_PROPFIND_BODY]

\* Response.ok
ResponseOk(status) == status >= 200 /\ status <= 299

Fulfilled(v) == [state |-> "fulfilled", value |-> v]
Rejected(e) == [state |-> "rejected", reason |-> e]
Pending == [state |-> "pending"]

\* a plausible slip: only 201 and 204 count as success
CreateEventFails_Only201And204(status) == status # 201 /\ status # 204

\* !response.ok && response.status !== 201 && response.status !== 204
CreateEventFails(status) == ~ResponseOk(status) /\ status # 201 /\ status # 204

\* new Error(`Failed to create event: ${response.status} ${response.statusText}`)
CreateEventError(status, statusText) ==
    [name |-> "Error",
     message |-> S_FAILED \o NumberToString(status) \o <<SP>> \o statusText]

\* createEvent after its await: res is what fetch() settled with
CreateEventOutcome(res) ==
    IF res.type = "error" THEN Rejected(res.error)
    ELSE IF CreateEventFails(res.status)
    THEN Rejected(CreateEventError(res.status, res.statusText))
    ELSE Fulfilled("undefined")

\* a plausible slip: no try/catch around the fetch
CheckConnectionOutcome_NoCatch(res) ==
    IF res.type = "error" THEN Rejected(res.error)
    ELSE Fulfilled(IF ResponseOk(res.status) THEN "true" ELSE "false")

\* checkConnection after its await: return response.ok, or false from the
\* catch block
CheckConnectionOutcome(res) ==
    IF res.type = "error" THEN Fulfilled("false")
    ELSE Fulfilled(IF ResponseOk(res.status) THEN "true" ELSE "false")

----------------------------------------------------------------------------
\* The client's surroundings: settings, events, and what fetch() settles with

MaxCalls == 2

\* "https://dav.example/cal"
URL_NO_SLASH == <<104, 116, 116, 112, 115, 58, 47, 47, 100, 97, 118, 46, 101,
    120, 97, 109, 112, 108, 101, 47, 99, 97, 108>>
\* "https://dav.example/cal/"
URL_SLASH == <<104, 116, 116, 112, 115, 58, 47, 47, 100, 97, 118, 46, 101,
    120, 97, 109, 112, 108, 101, 47, 99, 97, 108, 47>>

SettingsSet ==
    { [serverUrl |-> u, username |-> "user", password |-> "secret"] :
        u \in {URL_NO_SLASH, URL_SLASH} }

ClientEvents ==
    { Event(T_SHORT, IsoDate(2024, 2, 28), IsoDate(2024, 2, 29), TRUE,
            None, Some(U_SHORT)),
      Event(T_SPECIAL,
            IsoInstant([y |-> 2024, m |-> 3, d |-> 1, h |-> 9, mi |-> 0,
                        s |-> 0, off |-> 0]),
            IsoInstant([y |-> 2024, m |-> 3, d |-> 1, h |-> 10, mi |-> 0,
                        s |-> 0, off |-> 0]),
            FALSE, Some(T_SPECIAL), None) }

ClientNow == [days |-> DaysFromCivil(2026, 11, 3), secs |-> 29109, ms |-> 40]

\* "NetworkError when attempting to fetch resource."
S_NETWORK_ERROR == <<78, 101, 116, 119, 111, 114, 107, 69, 114, 114, 111, 114,
    32, 119, 104, 101, 110, 32, 97, 116, 116, 101, 109, 112, 116, 105, 110,
    103, 32, 116, 111, 32, 102, 101, 116, 99, 104, 32, 114, 101, 115, 111,
    117, 114, 99, 101, 46>>

\* the responses a server may give: status and status text (none under HTTP/2)
Responses ==
    { <<201, <<67, 114, 101, 97, 116, 101, 100>>>>,           \* Created
      <<204, <<78, 111, 32, 67, 111, 110, 116, 101, 110, 116>>>>,  \* No Content
      <<207, <<77, 117, 108, 116, 105, 45, 83, 116, 97, 116, 117, 115>>>>,
      <<299, <<>>>>,
      <<300, <<77, 117, 108, 116, 105, 112, 108, 101, 32, 67, 104, 111, 105,
               99, 101, 115>>>>,                               \* Multiple Choices
      <<409, <<67, 111, 110, 102, 108, 105, 99, 116>>>>,      \* Conflict
      <<409, <<>>>> }

\* what a fetch() settles with: a response, or a network-level failure
FetchResults ==
    { [type |-> "response", status |-> r[1], statusText |-> r[2]] : r \in Responses }
    \cup { [type |-> "error",
            error |-> [name |-> "TypeError", message |-> S_NETWORK_ERROR]] }

ClientInit ==
    /\ FoldOff
    /\ ExtOff
    /\ EscOff
    /\ IcsOff
    /\ settings \in SettingsSet
    /\ calls = <<>>
    /\ requests = <<>>

\* createEvent up to its await
CreateEventCall(ev, id, t) ==
    /\ Len(calls) < MaxCalls
    /\ calls' = Append(calls, [op |-> "createEvent", event |-> ev, uid |-> id,
                               pc |-> "awaitFetch", result |-> [type |-> "pending"],
                               outcome |-> Pending, logged |-> FALSE])
    /\ requests' = Append(requests,
                          [call |-> Len(calls) + 1,
                           fetch |-> CreateEventRequest(settings, ev, id, t)])
    /\ UNCHANGED <<settings, foldVars, escVars, icsVars, extVars>>

\* the fetch settles and createEvent runs to its end
CreateEventSettle(i, res) ==
    /\ calls[i].op = "createEvent"
    /\ calls[i].pc = "awaitFetch"
    /\ calls' = [calls EXCEPT ![i].pc = "settled", ![i].result = res,
                              ![i].outcome = CreateEventOutcome(res)]
    /\ UNCHANGED <<settings, requests, foldVars, escVars, icsVars, extVars>>

\* checkConnection up to its await
CheckConnectionCall ==
    /\ Len(calls) < MaxCalls
    /\ calls' = Append(calls, [op |-> "checkConnection", event |-> <<>>,
                               uid |-> <<>>, pc |-> "awaitFetch",
                               result |-> [type |-> "pending"],
                               outcome |-> Pending, logged |-> FALSE])
    /\ requests' = Append(requests,
                          [call |-> Len(calls) + 1,
                           fetch |-> CheckConnectionRequest(settings)])
    /\ UNCHANGED <<settings, foldVars, escVars, icsVars, extVars>>

\* the fetch settles and checkConnection runs to its end; the catch block logs
\* the failure with console.error
CheckConnectionSettle(i, res) ==
    /\ calls[i].op = "checkConnection"
    /\ calls[i].pc = "awaitFetch"
    /\ calls' = [calls EXCEPT ![i].pc = "settled", ![i].result = res,
                              ![i].outcome = CheckConnectionOutcome(res),
                              ![i].logged = (res.type = "error")]
    /\ UNCHANGED <<settings, requests, foldVars, escVars, icsVars, extVars>>

Next ==
    \/ \E ev \in ClientEvents, id \in Uids : CreateEventCall(ev, id, ClientNow)
    \/ \E i \in 1..Len(calls), res \in FetchResults : CreateEventSettle(i, res)
    \/ CheckConnectionCall
    \/ \E i \in 1..Len(calls), res \in FetchResults : CheckConnectionSettle(i, res)

Spec == ClientInit /\ [][Next]_vars

----------------------------------------------------------------------------
\* Claims about the client

RequestsOf(i) == {k \in 1..Len(requests) : requests[k].call = i}

CreateCalls == {i \in 1..Len(calls) : calls[i].op = "createEvent"}
CheckCalls == {i \in 1..Len(calls) : calls[i].op = "checkConnection"}

Is2xx(res) == res.type = "response" /\ res.status \in 200..299

\* C9: createEvent resolves exactly when the answer has a 2xx status; for
\* every other status it rejects with an Error whose message holds the status
\* code and the status text; when the request fails at network level it
\* rejects with that very failure
C9_CreateEventOutcome ==
    \A i \in CreateCalls :
        calls[i].pc = "settled" =>
            LET res == calls[i].result
                out == calls[i].outcome
            IN /\ out.state \in {"fulfilled", "rejected"}
               /\ out.state = "fulfilled" <=> Is2xx(res)
               /\ (res.type = "response" /\ ~Is2xx(res)) =>
                      /\ out.state = "rejected"
                      /\ out.reason.name = "Error"
                      /\ Contains(out.reason.message, NumberToString(res.status))
                      /\ Contains(out.reason.message, res.statusText)
               /\ res.type = "error" =>
                      out.state = "rejected" /\ out.reason = res.error

\* C9 witness: a createEvent call answered 409 Conflict was rejected, another
\* one answered 204 resolved
C9_Witness ==
    /\ \E i \in CreateCalls :
        /\ calls[i].pc = "settled"
        /\ calls[i].result.type = "response"
        /\ calls[i].result.status = 409
        /\ calls[i].result.statusText # <<>>
        /\ calls[i].outcome.state = "rejected"
        /\ Contains(calls[i].outcome.reason.message, <<52, 48, 57>>)
    /\ \E i \in CreateCalls :
        /\ calls[i].pc = "settled"
        /\ calls[i].result.type = "response"
        /\ calls[i].result.status = 204
        /\ calls[i].outcome.state = "fulfilled"

\* C10: checkConnection never rejects; it issues one PROPFIND with Depth 0 to
\* serverUrl, returns true only for a 2xx status (207 included), and false for
\* every other status and for every network failure
C10_CheckConnection ==
    \A i \in CheckCalls :
        /\ calls[i].outcome.state # "rejected"
        /\ Cardinality(RequestsOf(i)) = 1
        /\ \A k \in RequestsOf(i) :
            /\ requests[k].fetch.method = "PROPFIND"
            /\ requests[k].fetch.headers.Depth = "0"
            /\ requests[k].fetch.url = settings.serverUrl
        /\ calls[i].pc = "settled" =>
            /\ calls[i].outcome.state = "fulfilled"
            /\ calls[i].outcome.value = (IF Is2xx(calls[i].result) THEN "true" ELSE "false")

\* C10 witness: one checkConnection call met a network failure and returned
\* false, another one was answered 207 and returned true
C10_Witness ==
    /\ \E i \in CheckCalls :
        /\ calls[i].pc = "settled"
        /\ calls[i].result.type = "error"
        /\ calls[i].outcome = Fulfilled("false")
    /\ \E i \in CheckCalls :
        /\ calls[i].pc = "settled"
        /\ calls[i].result.type = "response"
        /\ calls[i].result.status = 207
        /\ calls[i].outcome = Fulfilled("true")

----------------------------------------------------------------------------
\* createEvent against a remote collection whose server honours
\* If-None-Match: * (RFC 7232): a PUT that carries it is refused with 412 when
\* the resource exists; every other PUT stores its body

\* "Precondition Failed"
S_PRECONDITION_FAILED == <<80, 114, 101, 99, 111, 110, 100, 105, 116, 105, 111,
    110, 32, 70, 97, 105, 108, 101, 100>>
\* "Created"
S_CREATED == <<67, 114, 101, 97, 116, 101, 100>>
\* "No Content"
S_NO_CONTENT == <<78, 111, 32, 67, 111, 110, 116, 101, 110, 116>>

Response(status, statusText) ==
    [type |-> "response", status |-> status, statusText |-> statusText]

\* the server's answer to a PUT, given the collection it meets
PutResponse(f, coll) ==
    IF f.url \in DOMAIN coll
    THEN IF f.headers.IfNoneMatch = "*" THEN Response(412, S_PRECONDITION_FAILED)
         ELSE Response(204, S_NO_CONTENT)
    ELSE Response(201, S_CREATED)

\* the collection after that PUT
PutStore(f, coll) ==
    IF f.url \in DOMAIN coll /\ f.headers.IfNoneMatch = "*" THEN coll
    ELSE [u \in DOMAIN coll \cup {f.url} |-> IF u = f.url THEN f.body ELSE coll[u]]

\* the one request of call i
RequestOf(i) == requests[CHOOSE k \in 1..Len(requests) : requests[k].call = i].fetch

NetworkError == [type |-> "error",
                 error |-> [name |-> "TypeError", message |-> S_NETWORK_ERROR]]

ServerInit ==
    /\ FoldOff
    /\ EscOff
    /\ IcsOff
    /\ PopupOff /\ PageOff /\ TruncOff /\ DescOff /\ SelOff
    /\ InputOff
    /\ OptionsOff
    /\ ContextOff
    /\ ChipOff
    /\ settings \in SettingsSet
    /\ calls = <<>>
    /\ requests = <<>>
    /\ store = <<>>

\* the PUT of call i reaches the server, which answers it
ServerPut(i) ==
    /\ calls[i].op = "createEvent"
    /\ calls[i].pc = "awaitFetch"
    /\ store' = PutStore(RequestOf(i), store)
    /\ calls' = [calls EXCEPT ![i].pc = "answered",
                              ![i].result = PutResponse(RequestOf(i), store)]
    /\ UNCHANGED <<settings, requests, foldVars, escVars, icsVars,
                   popupVars, pageVars, truncVars, descVars, selVars,
                   inputVars, optionsVars, contextVars, chipVars>>

\* the answer reaches the client and createEvent runs to its end
ServerAnswerArrives(i) ==
    /\ calls[i].pc = "answered"
    /\ calls' = [calls EXCEPT ![i].pc = "settled",
                              ![i].outcome = CreateEventOutcome(calls[i].result)]
    /\ UNCHANGED <<settings, requests, foldVars, escVars, icsVars, extVars>>

\* the request or its answer is lost: fetch() rejects
FetchFails(i) ==
    /\ calls[i].op = "createEvent"
    /\ calls[i].pc \in {"awaitFetch", "answered"}
    /\ calls' = [calls EXCEPT ![i].pc = "settled",
                              ![i].result = NetworkError,
                              ![i].outcome = CreateEventOutcome(NetworkError)]
    /\ UNCHANGED <<settings, requests, foldVars, escVars, icsVars, extVars>>

ServerNext ==
    \/ \E ev \in ClientEvents, id \in Uids : CreateEventCall(ev, id, ClientNow)
    \/ \E i \in 1..Len(calls) : ServerPut(i)
    \/ \E i \in 1..Len(calls) : ServerAnswerArrives(i)
    \/ \E i \in 1..Len(calls) : FetchFails(i)

SpecServer == ServerInit /\ [][ServerNext]_vars

\* C11: no step replaces or removes the content of a resource of the
\* collection (each URL is created at most once), a PUT that meets an existing
\* URL is answered 412, and the createEvent call that issued it is rejected
C11_NoOverwrite ==
    [][ /\ \A u \in DOMAIN store : u \in DOMAIN store' /\ store'[u] = store[u]
        /\ \A i \in 1..Len(calls) :
            /\ ( /\ calls[i].pc = "awaitFetch"
                 /\ calls'[i].pc = "answered"
                 /\ RequestOf(i).url \in DOMAIN store )
               => calls'[i].result.status = 412
            /\ ( /\ calls[i].pc = "answered"
                 /\ calls[i].result.status = 412
                 /\ calls'[i].pc = "settled" )
               => calls'[i].outcome.state = "rejected" ]_vars

\* C11 witness: two createEvent calls with the same uid and different events;
\* the first created the resource, the second was answered 412 and rejected
\* with an Error that names 412, and the resource still holds the first body
C11_Witness ==
    \E i, j \in CreateCalls :
        /\ i # j
        /\ calls[i].uid = calls[j].uid
        /\ calls[i].event # calls[j].event
        /\ calls[i].pc = "settled" /\ calls[i].outcome.state = "fulfilled"
        /\ calls[j].pc = "settled" /\ calls[j].outcome.state = "rejected"
        /\ calls[j].result.type = "response"
        /\ Contains(calls[j].outcome.reason.message, <<52, 49, 50>>)
        /\ store[RequestOf(i).url] = RequestOf(i).body
        /\ RequestOf(j).url = RequestOf(i).url
        /\ RequestOf(j).body # RequestOf(i).body

\* the resources of the collection that hold event ev: those whose content is
\* the body a createEvent call for ev has sent
ResourcesOfEvent(ev) ==
    { u \in DOMAIN store :
        \E i \in CreateCalls :
            /\ calls[i].event = ev
            /\ RequestOf(i).url = u
            /\ store[u] = RequestOf(i).body }

\* C12: publishing is idempotent: however often the same event record is
\* handed to createEvent, the collection holds at most one resource for it
C12_Idempotent ==
    \A ev \in ClientEvents : Cardinality(ResourcesOfEvent(ev)) <= 1

----------------------------------------------------------------------------
\* The popup's submit handler

\* "End date must be on or after start date."
S_END_DATE_ERROR == <<69, 110, 100, 32, 100, 97, 116, 101, 32, 109, 117, 115, 116,
    32, 98, 101, 32, 111, 110, 32, 111, 114, 32, 97, 102, 116, 101,
    114, 32, 115, 116, 97, 114, 116, 32, 100, 97, 116, 101, 46>>
\* "End time must be after start time."
S_END_TIME_ERROR == <<69, 110, 100, 32, 116, 105, 109, 101, 32, 109, 117, 115, 116,
    32, 98, 101, 32, 97, 102, 116, 101, 114, 32, 115, 116, 97, 114,
    116, 32, 116, 105, 109, 101, 46>>
\* "Event created successfully!"
S_CREATED_OK == <<69, 118, 101, 110, 116, 32, 99, 114, 101, 97, 116, 101, 100,
    32, 115, 117, 99, 99, 101, 115, 115, 102, 117, 108, 108, 121, 33>>
\* "Invalid time value", the message of the RangeError toISOString throws
S_INVALID_TIME == <<73, 110, 118, 97, 108, 105, 100, 32, 116, 105, 109, 101, 32,
    118, 97, 108, 117, 101>>
\* seconds and offset of the popup's local time zone: ":00+02:00"
S_LOCAL_ZONE == <<58, 48, 48, 43, 48, 50, 58, 48, 48>>

\* new Date(v) for the value of a datetime-local input (local time); the
\* empty value gives an invalid date
IsValidDate(v) == v # <<>>
LocalTime(v) == ParseDate(v \o S_LOCAL_ZONE)

\* a <= b on two time values
TimeLeq(a, b) == a.days < b.days \/ (a.days = b.days /\ a.secs <= b.secs)

\* a < b on strings (code units, then length)
StringLess(a, b) ==
    \E k \in 1..(Min(Len(a), Len(b)) + 1) :
        /\ \A j \in 1..(k - 1) : a[j] = b[j]
        /\ IF k > Len(a) THEN k <= Len(b)
           ELSE k <= Len(b) /\ a[k] < b[k]

\* x || undefined
OrUndefined(v) == IF v = <<>> THEN None ELSE Some(v)

\* the validation at the head of the handler: the message it shows, or none
ValidationError(f) ==
    IF f.allDay
    THEN IF StringLess(f.end, f.start) THEN Some(S_END_DATE_ERROR) ELSE None
    ELSE IF /\ IsValidDate(f.start) /\ IsValidDate(f.end)
            /\ TimeLeq(LocalTime(f.end), LocalTime(f.start))
         THEN Some(S_END_TIME_ERROR) ELSE None

\* building the event throws: toISOString of an invalid date (timed form)
EventThrows(f) == ~f.allDay /\ (~IsValidDate(f.start) \/ ~IsValidDate(f.end))

\* the CalendarEvent built from the inputs
FormEvent(f) ==
    IF f.allDay
    THEN Event(f.title, f.start, f.end, TRUE,
               OrUndefined(f.description), OrUndefined(f.url))
    ELSE Event(f.title, ToISOString(LocalTime(f.start)),
               ToISOString(LocalTime(f.end)), FALSE,
               OrUndefined(f.description), OrUndefined(f.url))

\* the value of a date input whose year has five digits: "10000-01-01"
IsLongYearDate(v) == Len(v) = 11

\* "T00:00:00+02:00", midnight in the popup's local time zone
S_LOCAL_MIDNIGHT == <<UPPER_T, ZERO, ZERO, COLON, ZERO, ZERO>> \o S_LOCAL_ZONE

\* new Date(v) for such a value: the string is outside the ISO format, so
\* the engine's own parser decides; one that accepts it reads local midnight
\* of that day, which is the instant this ISO string names
LongYearInstant(v) == <<PLUS, ZERO>> \o v \o S_LOCAL_MIDNIGHT

\* the event with its dates as an engine that accepts them reads them
EngineReads(ev) ==
    [ev EXCEPT !.start = IF IsLongYearDate(@) THEN LongYearInstant(@) ELSE @,
               !.end = IF IsLongYearDate(@) THEN LongYearInstant(@) ELSE @]

\* createEvent throws before its fetch: generateIcs meets a date it cannot
\* parse (the empty value of a date input, or a year of five digits where
\* the engine does not accept it: parses tells which engine runs)
IcsThrows(ev, parses) ==
    /\ ev.allDay
    /\ \E v \in {ev.start, ev.end} :
           ~IsValidDate(v) \/ (IsLongYearDate(v) /\ ~parses)

RangeError == [name |-> "RangeError", message |-> S_INVALID_TIME]

Shown(msg, type) == [display |-> "block", text |-> msg, className |-> type]
Hidden(st) == [st EXCEPT !.display = "none"]

\* the catch block: "Failed to create event: " + error.message
FailedStatus(e) == Shown(S_FAILED \o e.message, "error")

MaxSubmits == 2

\* "2024-03-01T09:00" and "2024-03-01T10:00"
L_NINE == <<50, 48, 50, 52, 45, 48, 51, 45, 48, 49, 84, 48, 57, 58, 48, 48>>
L_TEN == <<50, 48, 50, 52, 45, 48, 51, 45, 48, 49, 84, 49, 48, 58, 48, 48>>

\* "10000-01-01"
D_Y10K == <<49, 48, 48, 48, 48, 45, 48, 49, 45, 48, 49>>

Form(title, start, end, allDay, description, url) ==
    [title |-> title, start |-> start, end |-> end, allDay |-> allDay,
     description |-> description, url |-> url]

\* what the inputs may hold at a submit: times and dates in order, out of
\* order, and missing
Forms ==
    { Form(T_SHORT, L_NINE, L_TEN, FALSE, <<>>, U_SHORT),
      Form(T_SHORT, L_TEN, L_TEN, FALSE, <<>>, U_SHORT),
      Form(T_SHORT, <<>>, L_TEN, FALSE, <<>>, <<>>),
      Form(T_SHORT, IsoDate(2024, 2, 28), IsoDate(2024, 2, 29), TRUE,
           T_SPECIAL, U_SHORT),
      Form(T_SHORT, IsoDate(2024, 2, 29), IsoDate(2024, 2, 28), TRUE,
           <<>>, <<>>),
      Form(T_SHORT, <<>>, <<>>, TRUE, <<>>, <<>>),
      Form(T_SHORT, <<>>, IsoDate(2024, 2, 29), TRUE, <<>>, <<>>),
      Form(T_SHORT, D_Y10K, IsoDate(9999, 12, 31), TRUE, <<>>, U_SHORT),
      Form(T_SHORT, IsoDate(9999, 12, 31), D_Y10K, TRUE, <<>>, U_SHORT) }

\* getSettings(): the stored settings, or null
NoSettings == <<>>

\* the answers the popup's PUT may meet
PopupFetchResults ==
    { Response(201, S_CREATED),
      Response(409, <<67, 111, 110, 102, 108, 105, 99, 116>>),
      NetworkError }

PopupInit ==
    /\ FoldOff /\ EscOff /\ IcsOff
    /\ ServerOff /\ PageOff /\ TruncOff /\ DescOff /\ SelOff
    /\ InputOff
    /\ OptionsOff
    /\ ContextOff
    /\ ChipOff
    /\ settings \in SettingsSet \cup {NoSettings}
    /\ calls = <<>>
    /\ requests = <<>>
    /\ form \in Forms
    /\ loading = FALSE
    /\ statusLine = [display |-> "none", text |-> <<>>, className |-> ""]
    /\ handlers = <<>>

popupRest ==
    <<foldVars, escVars, icsVars, serverVars, pageVars, truncVars, descVars,
      selVars,
      inputVars,
      optionsVars,
      contextVars,
      chipVars>>

\* a submit event: the handler runs up to `await getSettings()`
Submit ==
    /\ Len(handlers) < MaxSubmits
    /\ handlers' = Append(handlers, [pc |-> "getSettings", call |-> 0,
                                     event |-> None,
                                     logged |-> FALSE, closeTimer |-> FALSE])
    /\ UNCHANGED <<form, loading, statusLine, clientVars, popupRest>>

\* the run reaches the fetch of createEvent: there are settings, the inputs
\* pass the validation, and neither building nor encoding the event throws
ReachesFetch(parses) ==
    /\ settings # NoSettings
    /\ ValidationError(form) = None
    /\ ~EventThrows(form)
    /\ ~IcsThrows(FormEvent(form), parses)

\* what the run does to the popup between getSettings() and its next await,
\* its return or its throw; event is the CalendarEvent handed to createEvent
HandlerContinue(h, parses) ==
    IF settings = NoSettings
    THEN /\ handlers' = [handlers EXCEPT ![h].pc = "done"]
         /\ UNCHANGED <<loading, statusLine>>
    ELSE IF ValidationError(form) # None
    THEN /\ statusLine' = Shown(ValidationError(form)[1], "error")
         /\ handlers' = [handlers EXCEPT ![h].pc = "done"]
         /\ UNCHANGED loading
    ELSE IF EventThrows(form)
    THEN \* showLoading(true), hideStatus(), then the RangeError leaves
         \* the handler
         /\ loading' = TRUE
         /\ statusLine' = Hidden(statusLine)
         /\ handlers' = [handlers EXCEPT ![h].pc = "threw"]
    ELSE IF IcsThrows(FormEvent(form), parses)
    THEN \* createEvent rejects before any fetch; catch and finally run
         /\ loading' = FALSE
         /\ statusLine' = FailedStatus(RangeError)
         /\ handlers' = [handlers EXCEPT ![h].pc = "done", ![h].logged = TRUE,
                                         ![h].event = Some(FormEvent(form))]
    ELSE /\ loading' = TRUE
         /\ statusLine' = Hidden(statusLine)
         /\ handlers' = [handlers EXCEPT ![h].pc = "createEvent",
                                         ![h].call = Len(calls) + 1,
                                         ![h].event = Some(FormEvent(form))]

\* what the same run hands to the client: createEvent issues its PUT
ClientContinue(id, t, parses) ==
    IF ReachesFetch(parses)
    THEN /\ calls' = Append(calls,
                [op |-> "createEvent", event |-> FormEvent(form), uid |-> id,
                 pc |-> "awaitFetch", result |-> [type |-> "pending"],
                 outcome |-> Pending, logged |-> FALSE])
         /\ requests' = Append(requests,
                [call |-> Len(calls) + 1,
                 fetch |-> CreateEventRequest(settings,
                              EngineReads(FormEvent(form)), id, t)])
    ELSE UNCHANGED <<calls, requests>>

\* getSettings() resolves and the handler runs on to its next await, its
\* return or its throw; id is what generateUid returns, t what new Date()
\* reads, parses whether the engine accepts a year of five digits
SubmitContinue(h, id, t, parses) ==
    /\ handlers[h].pc = "getSettings"
    /\ HandlerContinue(h, parses)
    /\ ClientContinue(id, t, parses)
    /\ UNCHANGED <<form, settings, popupRest>>

\* the fetch settles, createEvent resolves or rejects, and the handler runs
\* to its end: status, console.error, the close timer, showLoading(false)
SubmitSettle(h, res) ==
    /\ handlers[h].pc = "createEvent"
    /\ LET i == handlers[h].call
           out == CreateEventOutcome(res)
       IN /\ calls' = [calls EXCEPT ![i].pc = "settled", ![i].result = res,
                                    ![i].outcome = out]
          /\ IF out.state = "fulfilled"
             THEN /\ statusLine' = Shown(S_CREATED_OK, "success")
                  /\ handlers' = [handlers EXCEPT ![h].pc = "done",
                                                  ![h].closeTimer = TRUE]
             ELSE /\ statusLine' = FailedStatus(out.reason)
                  /\ handlers' = [handlers EXCEPT ![h].pc = "done",
                                                  ![h].logged = TRUE]
    /\ loading' = FALSE
    /\ UNCHANGED <<form, settings, requests, popupRest>>

PopupNext ==
    \/ Submit
    \/ \E h \in 1..Len(handlers), id \in Uids, parses \in BOOLEAN :
           SubmitContinue(h, id, ClientNow, parses)
    \/ \E h \in 1..Len(handlers), res \in PopupFetchResults : SubmitSettle(h, res)

SpecPopup == PopupInit /\ [][PopupNext]_vars

\* the createEvent calls of the popup whose PUT has not settled
InFlight == {i \in 1..Len(calls) : calls[i].pc = "awaitFetch"}

\* C13: at most one createEvent write is in flight at any time, whatever the
\* sequence of submit events
C13_OneInFlight == Cardinality(InFlight) <= 1


(***************************************************************************)
(* The page the injected extraction functions read (description.ts): its   *)
(* JSON-LD script blocks, microdata events, time elements, meta tags and   *)
(* article/main containers.                                                *)
(***************************************************************************)

\* String.prototype.trim: the white space and line terminators it strips
WhiteSpace ==
    {9, 10, 11, 12, 13, 32, 160, 5760, 8232, 8233, 8239, 8287, 12288, 65279}
    \cup (8192..8202)

RECURSIVE TrimStart(_)
TrimStart(s) ==
    IF s # <<>> /\ s[1] \in WhiteSpace THEN TrimStart(Tail(s)) ELSE s

RECURSIVE TrimEnd(_)
TrimEnd(s) ==
    IF s # <<>> /\ s[Len(s)] \in WhiteSpace
    THEN TrimEnd(SubSeq(s, 1, Len(s) - 1)) ELSE s

Trim(s) == TrimEnd(TrimStart(s))

Range(s) == {s[i] : i \in 1..Len(s)}

\* the k-th smallest member of a set of numbers
KthOf(S, k) == CHOOSE i \in S : Cardinality({j \in S : j < i}) = k - 1

\* a || b || c on strings: the first one that is not empty
FirstTruthy(ss) ==
    IF \E i \in 1..Len(ss) : ss[i] # <<>>
    THEN ss[CHOOSE i \in 1..Len(ss) :
                ss[i] # <<>> /\ \A j \in 1..(i - 1) : ss[j] = <<>>]
    ELSE <<>>

\* a value inside parsed JSON-LD: null, or an object with the properties the
\* extraction reads. graph is "absent", "list" (nodes holds it) or "object"
\* (an @graph that is a single object, which for-of cannot iterate);
\* descKind is "absent", "string" or "other" (a number, an object)
LdValue(isNull, graph, nodes, types, startDate, endDate, name, descKind, description) ==
    [isNull |-> isNull, graph |-> graph, nodes |-> nodes, types |-> types,
     startDate |-> startDate, endDate |-> endDate, name |-> name,
     descKind |-> descKind, description |-> description]

LdNull == LdValue(TRUE, "absent", <<>>, <<>>, <<>>, <<>>, <<>>, "absent", <<>>)

\* the evaluation of one script block as the sequence of nodes the inner loop
\* visits; a TypeError (JSON.parse failing, item["@graph"] on null, for-of
\* over an object) takes the place null takes: visiting it throws
ItemNodes(item) ==
    IF item.isNull THEN <<LdNull>>
    ELSE IF item.graph = "absent" THEN <<item>>
    ELSE IF item.graph = "list" THEN item.nodes
    ELSE <<LdNull>>

BlockNodes(block) ==
    IF ~block.parses THEN <<LdNull>>
    ELSE Flatten([i \in 1..Len(block.items) |-> ItemNodes(block.items[i])])

\* try { ... } catch {}: what was pushed before the first throw stays, the
\* rest of the block is skipped; throwing holds the places of the nodes
\* whose visit throws
UntilThrow(nodes, throwing) ==
    IF throwing = {} THEN nodes
    ELSE SubSeq(nodes, 1, (CHOOSE i \in throwing :
                               \A j \in throwing : i <= j) - 1)

IsEvent(node) == "Event" \in Range(node.types)

\* "Event", "Page date", "Published", "Modified", "Event start"
S_EVENT == <<69, 118, 101, 110, 116>>
S_PAGE_DATE == <<80, 97, 103, 101, 32, 100, 97, 116, 101>>
S_PUBLISHED == <<80, 117, 98, 108, 105, 115, 104, 101, 100>>
S_MODIFIED == <<77, 111, 100, 105, 102, 105, 101, 100>>
S_EVENT_START == <<69, 118, 101, 110, 116, 32, 115, 116, 97, 114, 116>>
S_BAR == <<124>>
S_JAN_FIRST == <<45, 48, 49, 45, 48, 49>>

IsDigit(c) == c >= ZERO /\ c <= ZERO + 9
IsYearOnly(v) == Len(v) = 4 /\ \A i \in 1..4 : IsDigit(v[i])
IsIsoForm(v) ==
    /\ Len(v) >= 10
    /\ \A i \in 1..4 : IsDigit(v[i])
    /\ v[5] = DASH /\ v[8] = DASH

\* tryParseDate: new Date(value), null when the time value is NaN. The pages
\* hold ISO dates and instants, a year ("2024"), and text no engine parses
tryParseDate(value) ==
    IF IsYearOnly(value) THEN Some(ParseDate(value \o S_JAN_FIRST))
    ELSE IF IsIsoForm(value) THEN Some(ParseDate(value))
    ELSE None

DateSuggestion(start, end, label) == [start |-> start, end |-> end, label |-> label]

\* the ISO string of a parseable value, "" (undefined) otherwise
IsoOrUndefined(value) ==
    IF value # <<>> /\ tryParseDate(value) # None
    THEN ToISOString(tryParseDate(value)[1]) ELSE <<>>

\* pass 1: one node of a JSON-LD block
DateOfNode(node) ==
    IF IsEvent(node) /\ tryParseDate(node.startDate) # None
    THEN <<DateSuggestion(ToISOString(tryParseDate(node.startDate)[1]),
                          IsoOrUndefined(node.endDate),
                          IF node.name # <<>> THEN node.name ELSE S_EVENT)>>
    ELSE <<>>

DateThrows(node) == node.isNull

JsonLdDatesOfBlock(block) ==
    LET nodes == BlockNodes(block)
        visited == UntilThrow(nodes, {i \in 1..Len(nodes) : DateThrows(nodes[i])})
    IN Flatten([i \in 1..Len(visited) |-> DateOfNode(visited[i])])

JsonLdDates(p) ==
    Flatten([b \in 1..Len(p.jsonLd) |-> JsonLdDatesOfBlock(p.jsonLd[b])])

\* pass 2: one microdata event
DateOfMicrodata(ev) ==
    LET startStr == FirstTruthy(<<ev.startDatetime, ev.startContent, ev.startText>>)
        endStr == FirstTruthy(<<ev.endDatetime, ev.endContent, ev.endText>>)
    IN IF ev.startEl /\ tryParseDate(startStr) # None
       THEN <<DateSuggestion(ToISOString(tryParseDate(startStr)[1]),
                             IF ev.endEl THEN IsoOrUndefined(endStr) ELSE <<>>,
                             IF Trim(ev.name) # <<>> THEN Trim(ev.name)
                             ELSE S_EVENT)>>
       ELSE <<>>

MicrodataDates(p) ==
    Flatten([i \in 1..Len(p.microdata) |-> DateOfMicrodata(p.microdata[i])])

\* pass 3: one time[datetime] element; years and durations are skipped
DateOfTime(el) ==
    IF \/ el.datetime = <<>>
       \/ tryParseDate(el.datetime) = None
       \/ el.datetime[1] = 80              \* /^P/
       \/ IsYearOnly(el.datetime)
    THEN <<>>
    ELSE <<DateSuggestion(ToISOString(tryParseDate(el.datetime)[1]), <<>>,
                          IF Trim(el.text) # <<>> THEN Trim(el.text)
                          ELSE S_PAGE_DATE)>>

TimeDates(p) == Flatten([i \in 1..Len(p.times) |-> DateOfTime(p.times[i])])

\* pass 4: metaSelectors, in the order of the array
metaSelectors ==
    << [sel |-> "published", label |-> S_PUBLISHED],
       [sel |-> "modified", label |-> S_MODIFIED],
       [sel |-> "eventStart", label |-> S_EVENT_START],
       [sel |-> "date", label |-> S_PAGE_DATE],
       [sel |-> "dcDate", label |-> S_PAGE_DATE] >>

DateOfMeta(p, m) ==
    LET content == p.meta[m.sel]
    IN IF content # <<>> /\ tryParseDate(content) # None
       THEN <<DateSuggestion(ToISOString(tryParseDate(content)[1]), <<>>, m.label)>>
       ELSE <<>>

MetaDates(p) ==
    Flatten([i \in 1..Len(metaSelectors) |-> DateOfMeta(p, metaSelectors[i])])

\* the suggestions array before the dedup loop
DateCandidates(p) ==
    JsonLdDates(p) \o MicrodataDates(p) \o TimeDates(p) \o MetaDates(p)

MaxSuggestions == 5

\* `${s.start}|${s.end ?? ""}`
DateKey(s) == s.start \o S_BAR \o s.end

\* a plausible slip: the key leaves the end out
DedupDates_ByStart(suggestions, seen, unique) ==
    LET RECURSIVE Go(_, _, _)
        Go(rest, sn, un) ==
            IF rest = <<>> THEN un
            ELSE IF Head(rest).start \in sn THEN Go(Tail(rest), sn, un)
            ELSE IF Len(un) + 1 >= MaxSuggestions THEN Append(un, Head(rest))
            ELSE Go(Tail(rest), sn \cup {Head(rest).start}, Append(un, Head(rest)))
    IN Go(suggestions, seen, unique)

\* the dedup loop: seen keys are skipped, the loop breaks at five
DedupDates(suggestions, seen, unique) ==
    LET RECURSIVE Go(_, _, _)
        Go(rest, sn, un) ==
            IF rest = <<>> THEN un
            ELSE IF DateKey(Head(rest)) \in sn THEN Go(Tail(rest), sn, un)
            ELSE IF Len(un) + 1 >= MaxSuggestions THEN Append(un, Head(rest))
            ELSE Go(Tail(rest), sn \cup {DateKey(Head(rest))}, Append(un, Head(rest)))
    IN Go(suggestions, seen, unique)

extractDateSuggestions(p) == DedupDates(DateCandidates(p), {}, <<>>)

(***************************************************************************)
(* Pages                                                                   *)
(***************************************************************************)
D_A == <<50, 48, 50, 52, 45, 48, 51, 45, 48, 49, 84, 48, 57, 58, 48, 48,
    58, 48, 48, 90>>
D_A_OFFSET == <<50, 48, 50, 52, 45, 48, 51, 45, 48, 49, 84, 49, 48, 58, 48, 48,
    58, 48, 48, 43, 48, 49, 58, 48, 48>>
D_B == <<50, 48, 50, 52, 45, 48, 51, 45, 48, 50>>
D_C == <<50, 48, 50, 52, 45, 48, 51, 45, 48, 51, 84, 49, 56, 58, 51, 48,
    58, 48, 48, 90>>
D_D == <<50, 48, 50, 52, 45, 48, 50, 45, 48, 49, 84, 48, 56, 58, 48, 48,
    58, 48, 48, 90>>
D_E == <<50, 48, 50, 52, 45, 48, 51, 45, 48, 53>>
D_F == <<50, 48, 50, 52, 45, 48, 51, 45, 48, 54>>
D_BAD == <<115, 111, 111, 110>>
D_YEAR == <<50, 48, 50, 52>>
D_DURATION == <<80, 49, 68>>
N_CONCERT == <<32, 67, 111, 110, 99, 101, 114, 116, 32>>
N_TALK == <<84, 97, 108, 107>>

EventNode(startDate, endDate, name) ==
    LdValue(FALSE, "absent", <<>>, <<"Event">>, startDate, endDate, name,
            "absent", <<>>)
PersonNode(name) ==
    LdValue(FALSE, "absent", <<>>, <<"Person">>, <<>>, <<>>, name, "absent", <<>>)
GraphItem(nodes) ==
    LdValue(FALSE, "list", nodes, <<>>, <<>>, <<>>, <<>>, "absent", <<>>)
GraphObjectItem ==
    LdValue(FALSE, "object", <<>>, <<>>, <<>>, <<>>, <<>>, "absent", <<>>)
Block(items) == [parses |-> TRUE, items |-> items]
BadBlock == [parses |-> FALSE, items |-> <<>>]

MicrodataEvent(startEl, startDatetime, startContent, startText,
               endEl, endDatetime, name, descEl, descContent, descText) ==
    [startEl |-> startEl, startDatetime |-> startDatetime,
     startContent |-> startContent, startText |-> startText,
     endEl |-> endEl, endDatetime |-> endDatetime, endContent |-> <<>>,
     endText |-> <<>>, name |-> name,
     descEl |-> descEl, descContent |-> descContent, descText |-> descText]

TimeElement(datetime, text) == [datetime |-> datetime, text |-> text]

Meta(published, modified, eventStart, date, dcDate) ==
    [published |-> published, modified |-> modified, eventStart |-> eventStart,
     date |-> date, dcDate |-> dcDate]

Page(jsonLd, microdata, times, meta, og, metaDescription, articles, mains) ==
    [jsonLd |-> jsonLd, microdata |-> microdata, times |-> times, meta |-> meta,
     og |-> og, metaDescription |-> metaDescription, articles |-> articles,
     mains |-> mains]

JsonLdDateCases ==
    { <<>>,
      <<Block(<<EventNode(D_C, <<>>, N_TALK), PersonNode(N_TALK)>>)>>,
      <<Block(<<EventNode(D_A, D_C, <<>>), EventNode(D_A_OFFSET, D_C, N_TALK)>>)>>,
      <<Block(<<EventNode(D_A, D_C, <<>>), EventNode(D_A, <<>>, N_TALK)>>)>>,
      <<Block(<<EventNode(D_C, <<>>, <<>>), EventNode(D_A, <<>>, <<>>),
                EventNode(D_B, <<>>, <<>>), EventNode(D_E, <<>>, <<>>),
                EventNode(D_F, D_F, <<>>), EventNode(D_D, <<>>, <<>>)>>)>>,
      <<BadBlock, Block(<<GraphItem(<<EventNode(D_B, D_BAD, <<>>)>>)>>)>>,
      <<Block(<<GraphItem(<<LdNull, EventNode(D_A, <<>>, <<>>)>>),
                EventNode(D_C, <<>>, <<>>)>>)>>,
      <<Block(<<GraphObjectItem, EventNode(D_B, <<>>, <<>>)>>),
        Block(<<EventNode(D_BAD, <<>>, <<>>)>>)>> }

MicrodataDateCases ==
    { <<>>,
      <<MicrodataEvent(TRUE, D_D, <<>>, <<>>, TRUE, D_C, N_CONCERT,
                       FALSE, <<>>, <<>>)>>,
      <<MicrodataEvent(TRUE, <<>>, D_A, <<>>, FALSE, <<>>, <<>>,
                       FALSE, <<>>, <<>>),
        MicrodataEvent(FALSE, <<>>, <<>>, <<>>, TRUE, D_C, N_TALK,
                       FALSE, <<>>, <<>>)>>,
      <<MicrodataEvent(TRUE, <<>>, <<>>, D_BAD, FALSE, <<>>, N_TALK,
                       FALSE, <<>>, <<>>)>> }

TimeDateCases ==
    { <<>>,
      <<TimeElement(D_A, N_CONCERT), TimeElement(D_YEAR, <<>>),
        TimeElement(D_DURATION, <<>>)>>,
      <<TimeElement(D_E, <<>>), TimeElement(D_F, N_TALK)>>,
      <<TimeElement(D_BAD, N_TALK)>> }

MetaDateCases ==
    { Meta(<<>>, <<>>, <<>>, <<>>, <<>>),
      Meta(D_B, D_A, <<>>, <<>>, <<>>),
      Meta(D_D, D_E, D_F, D_C, D_BAD) }

DatePages ==
    { Page(j, md, t, me, <<>>, <<>>, <<>>, <<>>) :
        j \in JsonLdDateCases, md \in MicrodataDateCases,
        t \in TimeDateCases, me \in MetaDateCases }


(***************************************************************************)
(* truncateText (description.ts 13-23) and the copy of it the injected     *)
(* functions carry (51-57)                                                 *)
(***************************************************************************)
MAX_DESCRIPTION_LENGTH == 500
MAX_LEN == 500
MinSibling == 10
ELLIPSIS == 8230
TAB == 9
LOWER_A == 97

\* cut.lastIndexOf(ch), 0-based, -1 when there is none
LastIndexOf(s, ch) ==
    IF \E i \in 1..Len(s) : s[i] = ch
    THEN (CHOOSE i \in 1..Len(s) :
              s[i] = ch /\ \A j \in (i + 1)..Len(s) : s[j] # ch) - 1
    ELSE -1

\* a plausible slip: the cut is never moved back to the space
truncateText_HardCut(text, maxLength) ==
    LET trimmed == Trim(text)
    IN IF Len(trimmed) <= maxLength THEN trimmed
       ELSE Slice(trimmed, 0, maxLength) \o <<ELLIPSIS>>

truncateText(text, maxLength) ==
    LET trimmed == Trim(text)
        cut == Slice(trimmed, 0, maxLength)
        lastSpace == LastIndexOf(cut, SP)
    IN IF Len(trimmed) <= maxLength THEN trimmed
       ELSE (IF 2 * lastSpace > maxLength THEN Slice(cut, 0, lastSpace) ELSE cut)
            \o <<ELLIPSIS>>

\* the injected copy: truncate(raw) with its own MAX_LEN
truncate(raw) ==
    LET t == Trim(raw)
        cut == Slice(t, 0, MAX_LEN)
        ls == LastIndexOf(cut, SP)
    IN IF Len(t) <= MAX_LEN THEN t
       ELSE (IF 2 * ls > MAX_LEN THEN Slice(cut, 0, ls) ELSE cut) \o <<ELLIPSIS>>

MaxTruncLen == 6

\* every text of up to MaxTruncLen characters over a letter, a space and a tab
RECURSIVE TextsOfLen(_)
TextsOfLen(n) ==
    IF n = 0 THEN {<<>>}
    ELSE {Append(s, c) : s \in TextsOfLen(n - 1), c \in {LOWER_A, SP, TAB}}

ShortTexts == UNION {TextsOfLen(n) : n \in 0..MaxTruncLen}

\* n letters, the one at 0-based index k replaced by ch
TextWith(n, k, ch) == [i \in 1..n |-> IF i = k + 1 THEN ch ELSE LOWER_A]

\* the long texts: 600 characters without white space, and with a space or a
\* tab at 250, 251 and 480
LongTexts ==
    {Rep(LOWER_A, 600)}
    \cup {TextWith(600, k, ch) : k \in {250, 251, 480}, ch \in {SP, TAB}}

TruncCases ==
    {[text |-> s, max |-> m] : s \in ShortTexts, m \in 0..5}
    \cup {[text |-> s, max |-> MAX_DESCRIPTION_LENGTH] : s \in LongTexts}

TruncInit ==
    /\ FoldOff /\ EscOff /\ IcsOff /\ ClientOff
    /\ ServerOff /\ PopupOff /\ PageOff /\ DescOff /\ SelOff
    /\ InputOff
    /\ OptionsOff
    /\ ContextOff
    /\ ChipOff
    /\ \E c \in TruncCases : rawText = c.text /\ maxArg = c.max
    /\ truncated = <<>>
    /\ truncPc = "ready"
    /\ again = None

truncRest ==
    <<foldVars, escVars, icsVars, clientVars, serverVars, popupVars, pageVars,
      descVars, selVars,
      inputVars,
      optionsVars,
      contextVars,
      chipVars>>

TruncateText ==
    /\ truncPc = "ready"
    /\ truncated' = truncateText(rawText, maxArg)
    /\ truncPc' = "truncateText"
    /\ UNCHANGED <<rawText, maxArg, again, truncRest>>

\* the injected copy takes no maximum: it runs on the texts given with 500
Truncate ==
    /\ truncPc = "ready"
    /\ maxArg = MAX_LEN
    /\ truncated' = truncate(rawText)
    /\ truncPc' = "truncate"
    /\ UNCHANGED <<rawText, maxArg, again, truncRest>>

\* the truncation written out in the sibling loop of
\* extractSelectionSiblingText: text is sibling.textContent?.trim()
truncateInline(text) ==
    LET cut == Slice(text, 0, MAX_LEN)
        ls == LastIndexOf(cut, SP)
    IN IF Len(text) <= MAX_LEN THEN text
       ELSE (IF 2 * ls > MAX_LEN THEN Slice(cut, 0, ls) ELSE cut) \o <<ELLIPSIS>>

\* the sibling loop reaches its truncation with the trimmed text of a
\* sibling that is longer than 10 characters
TruncateInline ==
    /\ truncPc = "ready"
    /\ maxArg = MAX_LEN
    /\ Len(Trim(rawText)) > MinSibling
    /\ truncated' = truncateInline(Trim(rawText))
    /\ truncPc' = "inline"
    /\ UNCHANGED <<rawText, maxArg, again, truncRest>>

\* truncateText is called on what it returned, with the same maximum
TruncateAgain ==
    /\ truncPc = "truncateText"
    /\ again = None
    /\ again' = Some(truncateText(truncated, maxArg))
    /\ UNCHANGED <<rawText, maxArg, truncated, truncPc, truncRest>>

TruncNext == TruncateText \/ Truncate \/ TruncateInline \/ TruncateAgain

SpecTruncate == TruncInit /\ [][TruncNext]_vars

\* the last white space character of s, 0-based, -1 when there is none
LastWhiteSpace(s) ==
    IF \E i \in 1..Len(s) : s[i] \in WhiteSpace
    THEN (CHOOSE i \in 1..Len(s) :
              s[i] \in WhiteSpace /\ \A j \in (i + 1)..Len(s) : s[j] \notin WhiteSpace)
         - 1
    ELSE -1

\* C18: truncate(text, max) returns the trimmed text unchanged when it is at
\* most max long; otherwise the text is cut at max characters, cut again at
\* the last white space character of that fragment when it lies beyond
\* max / 2, and one ellipsis is appended
C18_CutAtWhiteSpace ==
    truncPc # "ready" =>
        LET t == Trim(rawText)
            cut == SubSeq(t, 1, maxArg)
            ws == LastWhiteSpace(cut)
        IN truncated =
               IF Len(t) <= maxArg THEN t
               ELSE (IF 2 * ws > maxArg THEN SubSeq(cut, 1, ws) ELSE cut)
                    \o <<ELLIPSIS>>


(***************************************************************************)
(* extractDescriptionSuggestions (description.ts 40-167)                   *)
(***************************************************************************)
DescSuggestion(text, source) == [text |-> text, source |-> source]

\* pass 1: one node of a JSON-LD block; truncate(node.description) throws
\* when the description is there and is not a string
DescOfNode(node) ==
    IF IsEvent(node) /\ node.descKind = "string" /\ node.description # <<>>
    THEN <<DescSuggestion(truncate(node.description), "Event (structured data)")>>
    ELSE <<>>

DescThrows(node) == node.isNull \/ (IsEvent(node) /\ node.descKind = "other")

JsonLdDescriptionsOfBlock(block) ==
    LET nodes == BlockNodes(block)
        visited == UntilThrow(nodes, {i \in 1..Len(nodes) : DescThrows(nodes[i])})
    IN Flatten([i \in 1..Len(visited) |-> DescOfNode(visited[i])])

JsonLdDescriptions(p) ==
    Flatten([b \in 1..Len(p.jsonLd) |-> JsonLdDescriptionsOfBlock(p.jsonLd[b])])

\* pass 2: one microdata event
DescOfMicrodata(ev) ==
    LET text == FirstTruthy(<<ev.descContent, ev.descText>>)
    IN IF ev.descEl /\ Trim(text) # <<>>
       THEN <<DescSuggestion(truncate(text), "Event (Microdata)")>>
       ELSE <<>>

MicrodataDescriptions(p) ==
    Flatten([i \in 1..Len(p.microdata) |-> DescOfMicrodata(p.microdata[i])])

\* pass 3: og:description
OgDescriptions(p) ==
    IF Trim(p.og) # <<>> THEN <<DescSuggestion(truncate(p.og), "Open Graph")>>
    ELSE <<>>

\* pass 4: meta description, pushed unless it equals the Open Graph text
\* among the suggestions so far
MetaDescriptions(p, suggestions) ==
    LET og == SelectSeq(suggestions, LAMBDA s : s.source = "Open Graph")
        ogText == IF og = <<>> THEN <<>> ELSE og[1].text
    IN IF /\ Trim(p.metaDescription) # <<>>
          /\ (ogText = <<>> \/ ogText # truncate(p.metaDescription))
       THEN <<DescSuggestion(truncate(p.metaDescription), "Meta description")>>
       ELSE <<>>

MinParagraph == 20

\* pass 5: querySelector("article") || querySelector("main"), then its
\* first paragraph of more than 20 characters
PageContainer(p) ==
    IF p.articles # <<>> THEN Some(p.articles[1])
    ELSE IF p.mains # <<>> THEN Some(p.mains[1])
    ELSE None

Meaningful(text) == Len(Trim(text)) > MinParagraph

FirstMeaningful(paragraphs) ==
    LET ok == SelectSeq(paragraphs, Meaningful)
    IN IF ok = <<>> THEN <<>>
       ELSE <<DescSuggestion(truncate(Trim(ok[1])), "Page content")>>

PageContent(p) ==
    IF PageContainer(p) = None THEN <<>>
    ELSE FirstMeaningful(PageContainer(p)[1])

\* the suggestions array before the dedup
DescCandidates(p) ==
    LET s3 == JsonLdDescriptions(p) \o MicrodataDescriptions(p) \o OgDescriptions(p)
    IN s3 \o MetaDescriptions(p, s3) \o PageContent(p)

\* a plausible slip: the cap is applied before the duplicates are removed
DedupDescriptions_CapFirst(suggestions) ==
    LET capped == SubSeq(suggestions, 1, Min(Len(suggestions), MaxSuggestions))
        kept == {i \in 1..Len(capped) :
                    \A j \in 1..(i - 1) : capped[j].text # capped[i].text}
    IN [k \in 1..Cardinality(kept) |-> capped[KthOf(kept, k)]]

\* suggestions.filter(first time this text is seen).slice(0, 5)
DedupDescriptions(suggestions) ==
    LET RECURSIVE Filter(_, _)
        Filter(rest, seen) ==
            IF rest = <<>> THEN <<>>
            ELSE IF Head(rest).text \in seen THEN Filter(Tail(rest), seen)
            ELSE <<Head(rest)>> \o Filter(Tail(rest), seen \cup {Head(rest).text})
        filtered == Filter(suggestions, {})
    IN Slice(filtered, 0, Min(Len(filtered), MaxSuggestions))

extractDescriptionSuggestions(p) == DedupDescriptions(DescCandidates(p))


T_ONE == <<68, 111, 111, 114, 115, 32, 111, 112, 101, 110, 32, 97, 116,
    32, 115, 101, 118, 101, 110, 46>>
T_TWO == <<65, 110, 32, 101, 118, 101, 110, 105, 110, 103, 32, 111, 102,
    32, 99, 104, 97, 109, 98, 101, 114, 32, 109, 117, 115, 105, 99,
    46>>
T_THREE == <<66, 114, 105, 110, 103, 32, 121, 111, 117, 114, 32, 111, 119,
    110, 32, 99, 104, 97, 105, 114, 46>>
T_FOUR == <<84, 105, 99, 107, 101, 116, 115, 32, 97, 116, 32, 116, 104,
    101, 32, 100, 111, 111, 114, 46>>
T_FIVE == <<83, 101, 97, 115, 111, 110, 32, 111, 112, 101, 110, 105, 110,
    103, 32, 99, 111, 110, 99, 101, 114, 116>>
T_SIX == <<84, 104, 101, 32, 111, 102, 102, 105, 99, 105, 97, 108, 32,
    115, 105, 116, 101, 32, 111, 102, 32, 116, 104, 101, 32, 104,
    97, 108, 108>>
T_PADDED == <<32, 32, 68, 111, 111, 114, 115, 32, 111, 112, 101, 110, 32, 97,
    116, 32, 115, 101, 118, 101, 110, 46, 32, 32>>
T_BLANK == <<32, 32, 32>>
P_SHORT == <<82, 101, 97, 100, 32, 109, 111, 114, 101>>
P_TWENTY == <<32, 69, 120, 97, 99, 116, 108, 121, 32, 116, 119, 101, 110,
    116, 121, 32, 99, 104, 97, 114, 115, 32>>
P_FIRST == <<84, 104, 101, 32, 113, 117, 97, 114, 116, 101, 116, 32, 112,
    108, 97, 121, 115, 32, 72, 97, 121, 100, 110, 32, 97, 110, 100,
    32, 66, 97, 114, 116, 111, 107, 46>>
P_SECOND == <<82, 101, 102, 114, 101, 115, 104, 109, 101, 110, 116, 115, 32,
    97, 114, 101, 32, 115, 101, 114, 118, 101, 100, 32, 97, 102,
    116, 101, 114, 119, 97, 114, 100, 115, 46>>

EventWithDescription(descKind, description) ==
    LdValue(FALSE, "absent", <<>>, <<"Event">>, <<>>, <<>>, <<>>, descKind,
            description)

JsonLdDescCases ==
    { <<>>,
      <<Block(<<EventWithDescription("string", T_ONE)>>)>>,
      <<Block(<<EventWithDescription("string", T_ONE),
                EventWithDescription("string", T_PADDED),
                EventWithDescription("string", T_TWO)>>),
        Block(<<EventWithDescription("string", T_THREE)>>)>>,
      <<Block(<<EventWithDescription("other", <<>>),
                EventWithDescription("string", T_TWO)>>),
        Block(<<EventWithDescription("string", T_THREE)>>)>>,
      <<Block(<<EventWithDescription("string", Rep(LOWER_A, 600)),
                EventWithDescription("string", T_ONE),
                EventWithDescription("string", T_PADDED)>>)>>,
      <<Block(<<EventWithDescription("absent", <<>>),
                EventWithDescription("string", TextWith(600, 480, SP))>>)>> }

MicrodataDescCases ==
    { <<>>,
      <<MicrodataEvent(FALSE, <<>>, <<>>, <<>>, FALSE, <<>>, <<>>,
                       TRUE, T_FOUR, T_ONE)>>,
      <<MicrodataEvent(FALSE, <<>>, <<>>, <<>>, FALSE, <<>>, <<>>,
                       TRUE, <<>>, T_PADDED),
        MicrodataEvent(FALSE, <<>>, <<>>, <<>>, FALSE, <<>>, <<>>,
                       FALSE, <<>>, <<>>)>> }

OgCases == {<<>>, T_FIVE, T_ONE, T_BLANK}

MetaDescriptionCases == {<<>>, T_FIVE, T_SIX}

\* the paragraphs of the page's article elements and of its main elements
ContainerCases ==
    { [articles |-> <<>>, mains |-> <<>>],
      [articles |-> << <<P_SHORT, P_TWENTY, P_FIRST, P_SECOND>> >>, mains |-> <<>>],
      [articles |-> <<>>, mains |-> << <<P_SECOND, P_FIRST>> >>],
      [articles |-> << <<P_SHORT>> >>, mains |-> << <<P_FIRST>> >>],
      [articles |-> << <<>>, <<P_SECOND>> >>, mains |-> <<>>] }

NoMeta == Meta(<<>>, <<>>, <<>>, <<>>, <<>>)

DescPages ==
    { Page(j, md, <<>>, NoMeta, og, me, c.articles, c.mains) :
        j \in JsonLdDescCases, md \in MicrodataDescCases, og \in OgCases,
        me \in MetaDescriptionCases, c \in ContainerCases }

Pages == DatePages \cup DescPages

PageInit ==
    /\ FoldOff /\ EscOff /\ IcsOff /\ ClientOff
    /\ ServerOff /\ PopupOff /\ TruncOff /\ DescOff /\ SelOff
    /\ InputOff
    /\ OptionsOff
    /\ ContextOff
    /\ ChipOff
    /\ page \in Pages
    /\ dateSuggestions = <<>>
    /\ descSuggestions = <<>>
    /\ pagePc = "idle"

pageRest ==
    <<foldVars, escVars, icsVars, clientVars, serverVars, popupVars, truncVars,
      descVars, selVars,
      inputVars,
      optionsVars,
      contextVars,
      chipVars>>

\* the popup runs the two extractions independently of each other
ExtractDates ==
    /\ pagePc \in {"idle", "descriptions"}
    /\ dateSuggestions' = extractDateSuggestions(page)
    /\ pagePc' = IF pagePc = "idle" THEN "dates" ELSE "both"
    /\ UNCHANGED <<page, descSuggestions, pageRest>>

ExtractDescriptions ==
    /\ pagePc \in {"idle", "dates"}
    /\ descSuggestions' = extractDescriptionSuggestions(page)
    /\ pagePc' = IF pagePc = "idle" THEN "descriptions" ELSE "both"
    /\ UNCHANGED <<page, dateSuggestions, pageRest>>

DescriptionsDone == pagePc \in {"descriptions", "both"}

PageNext == ExtractDates \/ ExtractDescriptions

SpecPage == PageInit /\ [][PageNext]_vars

DatesDone == pagePc \in {"dates", "both"}

\* the candidates whose key did not occur earlier in the list
FirstOccurrences(c) ==
    {i \in 1..Len(c) : \A j \in 1..(i - 1) : DateKey(c[j]) # DateKey(c[i])}

\* C14: extractDateSuggestions returns the first 5 (all, if fewer) of the
\* candidates left after dropping every candidate whose key start|end (""
\* for a missing end) occurred earlier; the candidates stand in pass order
\* (JSON-LD, microdata, time elements, meta tags in their fixed order) and
\* the result keeps that order, it is not sorted by time
C14_DedupCap ==
    DatesDone =>
        LET c == JsonLdDates(page) \o MicrodataDates(page) \o TimeDates(page)
                 \o MetaDates(page)
            keep == FirstOccurrences(c)
            n == Min(5, Cardinality(keep))
        IN dateSuggestions = [k \in 1..n |-> c[KthOf(keep, k)]]

\* seven or more candidates, duplicates among them, five returned, and a
\* later start standing before an earlier one
C14_Witness ==
    /\ DatesDone
    /\ Len(DateCandidates(page)) >= 7
    /\ Cardinality(FirstOccurrences(DateCandidates(page)))
           < Len(DateCandidates(page))
    /\ Cardinality(FirstOccurrences(DateCandidates(page))) > 5
    /\ Len(dateSuggestions) = 5
    /\ \E i \in 1..4 :
           StringLess(dateSuggestions[i + 1].start, dateSuggestions[i].start)


\* the candidates whose text did not occur earlier in the list
FirstTexts(c) ==
    {i \in 1..Len(c) : \A j \in 1..(i - 1) : c[j].text # c[i].text}

\* C16: extractDescriptionSuggestions returns at most 5 suggestions, no two
\* with the same text, in pass order (JSON-LD, microdata, og:description,
\* meta description, page content) with the first occurrence of each text
\* kept, and every text is at most 501 characters long
C16_Descriptions ==
    DescriptionsDone =>
        LET c == DescCandidates(page)
            keep == FirstTexts(c)
            n == Min(5, Cardinality(keep))
        IN /\ descSuggestions = [k \in 1..n |-> c[KthOf(keep, k)]]
           /\ Len(descSuggestions) <= 5
           /\ \A i, j \in 1..Len(descSuggestions) :
                  i # j => descSuggestions[i].text # descSuggestions[j].text
           /\ \A i \in 1..Len(descSuggestions) :
                  Len(descSuggestions[i].text) <= 501

\* more than five distinct texts with a repeated one among the first five
\* candidates, and a text of 501 characters (500 and the ellipsis)
C16_Witness ==
    /\ DescriptionsDone
    /\ Cardinality(FirstTexts(DescCandidates(page))) > 5
    /\ \E i \in 2..5 : i \notin FirstTexts(DescCandidates(page))
    /\ Len(descSuggestions) = 5
    /\ \E i \in 1..Len(descSuggestions) : Len(descSuggestions[i].text) = 501


\* the nodes of a block with every fault kept to the value it occurs in: a
\* block that does not parse, a null item and an @graph that is no list give
\* no nodes, a null node is left out, and the nodes after it stay
WellFormedNodes(block) ==
    IF ~block.parses THEN <<>>
    ELSE Flatten([i \in 1..Len(block.items) |->
             LET item == block.items[i]
             IN IF item.isNull THEN <<>>
                ELSE IF item.graph = "absent" THEN <<item>>
                ELSE IF item.graph = "list"
                THEN SelectSeq(item.nodes, LAMBDA n : ~n.isNull)
                ELSE <<>>])

WellFormedDates(p) ==
    Flatten([b \in 1..Len(p.jsonLd) |->
        LET nodes == WellFormedNodes(p.jsonLd[b])
        IN Flatten([i \in 1..Len(nodes) |-> DateOfNode(nodes[i])])])

WellFormedDescriptions(p) ==
    Flatten([b \in 1..Len(p.jsonLd) |->
        LET nodes == SelectSeq(WellFormedNodes(p.jsonLd[b]),
                               LAMBDA n : ~DescThrows(n))
        IN Flatten([i \in 1..Len(nodes) |-> DescOfNode(nodes[i])])])

\* C15: a malformed candidate (a null node in an @graph, an @graph that is
\* no list, an Event node whose description is no string) aborts neither its
\* pass nor another one: every well-formed candidate of the same block, of
\* the other blocks and of the later passes is produced, up to dedup and the
\* cap of 5
C15_FaultIsolated ==
    /\ DatesDone =>
           dateSuggestions =
               DedupDates(WellFormedDates(page) \o MicrodataDates(page)
                          \o TimeDates(page) \o MetaDates(page), {}, <<>>)
    /\ DescriptionsDone =>
           LET s3 == WellFormedDescriptions(page) \o MicrodataDescriptions(page)
                     \o OgDescriptions(page)
           IN descSuggestions =
                  DedupDescriptions(s3 \o MetaDescriptions(page, s3)
                                    \o PageContent(page))

\* every container of the page that holds a paragraph of more than 20
\* characters
MeaningfulContainers(p) ==
    {c \in Range(p.articles) \cup Range(p.mains) :
        \E i \in 1..Len(c) : Meaningful(c[i])}

\* C17: when an article or main element of the page holds a paragraph whose
\* trimmed text is longer than 20 characters, the page-content pass produces
\* a candidate from the first such paragraph; it never produces more than one
C17_PageContent ==
    DescriptionsDone =>
        /\ Len(PageContent(page)) <= 1
        /\ MeaningfulContainers(page) # {} =>
               /\ Len(PageContent(page)) = 1
               /\ \E c \in MeaningfulContainers(page) :
                      PageContent(page) = FirstMeaningful(c)


(***************************************************************************)
(* buildDescription (description.ts 28-33) and the popup's description     *)
(* field: suggestion chips and sibling-text fills (popup 387-397, 474-480, *)
(* 704-707)                                                                *)
(***************************************************************************)
\* "Source: " and the separator "\n\n"
S_SOURCE == <<83, 111, 117, 114, 99, 101, 58, 32>>
S_BLANK_LINE == <<LF, LF>>

\* a plausible slip: the body is pushed as it is, not trimmed
buildDescription_Untrimmed(body, url) ==
    LET parts == (IF Trim(body) # <<>> THEN <<body>> ELSE <<>>)
                 \o (IF Truthy(url) THEN <<S_SOURCE \o url[1]>> ELSE <<>>)
    IN Join(parts, S_BLANK_LINE)

buildDescription(body, url) ==
    LET parts == (IF Trim(body) # <<>> THEN <<Trim(body)>> ELSE <<>>)
                 \o (IF Truthy(url) THEN <<S_SOURCE \o url[1]>> ELSE <<>>)
    IN Join(parts, S_BLANK_LINE)

MaxApplications == 3

U_PAGE == <<104, 116, 116, 112, 115, 58, 47, 47, 104, 97, 108, 108, 46,
    101, 120, 97, 109, 112, 108, 101, 47, 99, 111, 110, 99, 101,
    114, 116>>

DescUrls == {<<>>, U_PAGE}

\* the texts of chips and sibling fills: empty, blank, padded, of several
\* paragraphs, and texts that hold a Source line themselves
DescBodies ==
    { <<>>, T_BLANK, T_PADDED,
      T_TWO \o S_BLANK_LINE \o T_THREE \o <<LF>>,
      S_SOURCE \o U_PAGE,
      T_ONE \o S_BLANK_LINE \o S_SOURCE \o U_PAGE }

DescInit ==
    /\ FoldOff /\ EscOff /\ IcsOff /\ ClientOff
    /\ ServerOff /\ PopupOff /\ PageOff /\ TruncOff /\ SelOff
    /\ InputOff
    /\ OptionsOff
    /\ ContextOff
    /\ ChipOff
    /\ urlInput \in DescUrls
    /\ descInput = buildDescription(<<>>, OrUndefined(urlInput))
    /\ applied = <<>>

descRest ==
    <<foldVars, escVars, icsVars, clientVars, serverVars, popupVars, pageVars,
      truncVars, selVars,
      inputVars,
      optionsVars,
      contextVars,
      chipVars>>

\* a click on a description chip
applyDescriptionSuggestion(text) ==
    /\ Len(applied) < MaxApplications
    /\ descInput' = buildDescription(text, OrUndefined(urlInput))
    /\ applied' = Append(applied, text)
    /\ UNCHANGED <<urlInput, descRest>>

\* storage.onChanged with contextMenuSiblingText: filled in when the entry
\* is fresh and its text is not empty
SiblingTextChanged(text, fresh) ==
    /\ Len(applied) < MaxApplications
    /\ IF fresh /\ text # <<>>
       THEN /\ descInput' = buildDescription(text, OrUndefined(urlInput))
            /\ applied' = Append(applied, text)
       ELSE UNCHANGED <<descInput, applied>>
    /\ UNCHANGED <<urlInput, descRest>>

\* DOMContentLoaded with contextMenuSiblingText already stored: filled in
\* when the entry is fresh, whatever its text
SiblingTextStored(text, fresh) ==
    /\ applied = <<>>
    /\ fresh
    /\ descInput' = buildDescription(text, OrUndefined(urlInput))
    /\ applied' = Append(applied, text)
    /\ UNCHANGED <<urlInput, descRest>>

DescNext ==
    \/ \E text \in DescBodies : applyDescriptionSuggestion(text)
    \/ \E text \in DescBodies, fresh \in BOOLEAN : SiblingTextChanged(text, fresh)
    \/ \E text \in DescBodies, fresh \in BOOLEAN : SiblingTextStored(text, fresh)

SpecDescription == DescInit /\ [][DescNext]_vars

\* the number of places where p occurs in s
Occurrences(s, p) ==
    Cardinality({i \in 1..(Len(s) - Len(p) + 1) : SubSeq(s, i, i + Len(p) - 1) = p})

LastApplied == Trim(applied[Len(applied)])
Footer == S_SOURCE \o urlInput

\* the description is the trimmed last-applied body, a blank line and the
\* footer; the footer alone for an empty body; the body alone without a url
DescriptionShape ==
    IF urlInput = <<>> THEN descInput = LastApplied
    ELSE IF LastApplied = <<>> THEN descInput = Footer
    ELSE descInput = LastApplied \o <<LF, LF>> \o Footer

\* C19: after any sequence of suggestion applications and sibling-text fills
\* the description is the trimmed last-applied body, one blank line and
\* "Source: <url>", the footer alone for an empty body and the body alone
\* without a url; the footer is added once, at the end, whatever was applied
\* before: the description holds one occurrence of it more than the body
\* itself does
C19_StableFooter ==
    applied # <<>> =>
        /\ DescriptionShape
        /\ urlInput # <<>> =>
               /\ EndsWith(descInput, Footer)
               /\ Occurrences(descInput, Footer)
                      = Occurrences(LastApplied, Footer) + 1

\* three applications in a row with a url, the last body with text
C19_Witness ==
    /\ Len(applied) = MaxApplications
    /\ urlInput # <<>>
    /\ LastApplied # <<>>
    /\ applied[1] # applied[2]
    /\ Occurrences(descInput, Footer) = 1

\* C19 as stated: the footer occurs exactly once in the description
C19_Original ==
    (applied # <<>> /\ urlInput # <<>>) =>
        /\ DescriptionShape
        /\ EndsWith(descInput, Footer)
        /\ Occurrences(descInput, Footer) = 1


(***************************************************************************)
(* extractSelectionSiblingText (description.ts 177-233)                    *)
(*                                                                         *)
(* The document is a sequence of nodes in document order; each node names  *)
(* its parent (0 for the node under the document itself), its kind, its    *)
(* computed display, whether it is an HTMLElement (an svg element is an    *)
(* Element that is not), whether it is document.body, and its textContent. *)
(* The selection is the index of range.startContainer, 0 when there is no  *)
(* range.                                                                  *)
(***************************************************************************)
DomNode(parent, kind, display, isHtml, isBody, text) ==
    [parent |-> parent, kind |-> kind, display |-> display, isHtml |-> isHtml,
     isBody |-> isBody, text |-> text]


BlockDisplays == {"block", "flex", "grid", "list-item"}

\* node.parentElement: the parent when it is an element, else null (0)
ParentElement(d, n) ==
    IF d[n].parent # 0 /\ d[d[n].parent].kind = "element" THEN d[n].parent ELSE 0

\* the while loop of the walk: the node it ends on, 0 for null
RECURSIVE WalkUp(_, _)
WalkUp(d, n) ==
    IF n = 0 \/ d[n].isBody THEN n
    ELSE IF d[n].kind = "element" /\ d[n].display \in BlockDisplays THEN n
    ELSE WalkUp(d, ParentElement(d, n))

\* node.nextElementSibling, 0 for null
NextElementSibling(d, n) ==
    LET later == {j \in (n + 1)..Len(d) :
                     d[j].parent = d[n].parent /\ d[j].kind = "element"}
    IN IF later = {} THEN 0 ELSE CHOOSE j \in later : \A k \in later : j <= k

\* the sibling loop, with the truncation written out inside it
RECURSIVE SiblingLoop(_, _)
SiblingLoop(d, sibling) ==
    IF sibling = 0 THEN None
    ELSE LET text == Trim(d[sibling].text)
         IN IF text # <<>> /\ Len(text) > MinSibling
            THEN Some(truncateInline(text))
            ELSE SiblingLoop(d, NextElementSibling(d, sibling))

\* a plausible slip: only the next sibling is looked at
extractSelectionSiblingText_NextOnly(d, sel) ==
    IF sel = 0 THEN None
    ELSE LET node == WalkUp(d, sel)
             sibling == IF node = 0 THEN 0 ELSE NextElementSibling(d, node)
         IN IF node = 0 \/ d[node].isBody \/ ~d[node].isHtml \/ sibling = 0
               \/ Len(Trim(d[sibling].text)) <= MinSibling
            THEN None
            ELSE Some(truncate(d[sibling].text))

extractSelectionSiblingText(d, sel) ==
    IF sel = 0 THEN None
    ELSE LET node == WalkUp(d, sel)
         IN IF node = 0 \/ d[node].isBody \/ ~d[node].isHtml THEN None
            ELSE SiblingLoop(d, NextElementSibling(d, node))

\* sibling texts: of 9, 10 and 11 characters, padded, blank, and of 600
S_NINE == <<82, 101, 97, 100, 32, 109, 111, 114, 101>>
S_TEN == <<32, 84, 101, 110, 32, 99, 104, 97, 114, 115, 32>>
S_ELEVEN == <<69, 108, 101, 118, 101, 110, 32, 99, 104, 97, 114>>
SiblingTexts == {<<>>, S_TEN, S_ELEVEN, TextWith(600, 480, SP)}

\*  1 html          2 body (in 1)    3 div (in 2)      4 h2 (in 3)
\*  5 text (in 4)   6 span (in 4)    7 text (in 6)     8 p (in 3)
\*  9 p (in 3)     10 svg (in 3)    11 text (in 10)   12 p (in 3)
\* 13 span (in 2)  14 text (in 13)  15 head (in 1)    16 text (in 15)
Document(divDisplay, headingDisplay, svgDisplay, first, second) ==
    << DomNode(0, "element", "block", TRUE, FALSE, <<>>),
       DomNode(1, "element", "block", TRUE, TRUE, <<>>),
       DomNode(2, "element", divDisplay, TRUE, FALSE, <<>>),
       DomNode(3, "element", headingDisplay, TRUE, FALSE, N_TALK),
       DomNode(4, "text", "", FALSE, FALSE, N_TALK),
       DomNode(4, "element", "inline", TRUE, FALSE, N_TALK),
       DomNode(6, "text", "", FALSE, FALSE, N_TALK),
       DomNode(3, "element", "block", TRUE, FALSE, first),
       DomNode(3, "element", "inline", TRUE, FALSE, second),
       DomNode(3, "element", svgDisplay, FALSE, FALSE, N_TALK),
       DomNode(10, "text", "", FALSE, FALSE, N_TALK),
       DomNode(3, "element", "block", TRUE, FALSE, P_FIRST),
       DomNode(2, "element", "inline", TRUE, FALSE, P_SECOND),
       DomNode(13, "text", "", FALSE, FALSE, P_SECOND),
       DomNode(1, "element", "none", TRUE, FALSE, N_TALK),
       DomNode(15, "text", "", FALSE, FALSE, N_TALK) >>

Documents ==
    { Document(dd, hd, sd, first, second) :
        dd \in {"block", "inline"},
        hd \in {"block", "flex", "grid", "list-item", "inline-block"},
        sd \in {"block", "inline"},
        first \in SiblingTexts, second \in {S_NINE, S_ELEVEN} }

\* no range, or a range starting in the body, the heading, its text, the
\* text of its span, the text inside the svg, the span under the body, the
\* head
Selections == {0, 2, 4, 5, 7, 11, 14, 16}

SelInit ==
    /\ FoldOff /\ EscOff /\ IcsOff /\ ClientOff
    /\ ServerOff /\ PopupOff /\ PageOff /\ TruncOff /\ DescOff
    /\ InputOff
    /\ OptionsOff
    /\ ContextOff
    /\ ChipOff
    /\ dom \in Documents
    /\ selection \in Selections
    /\ siblingText = None
    /\ selPc = "ready"

selRest ==
    <<foldVars, escVars, icsVars, clientVars, serverVars, popupVars, pageVars,
      truncVars, descVars,
      inputVars,
      optionsVars,
      contextVars,
      chipVars>>

ExtractSelectionSiblingText ==
    /\ selPc = "ready"
    /\ siblingText' = extractSelectionSiblingText(dom, selection)
    /\ selPc' = "done"
    /\ UNCHANGED <<dom, selection, selRest>>

SelNext == ExtractSelectionSiblingText

SpecSelection == SelInit /\ [][SelNext]_vars

\* n and its ancestors, nearest first, as long as they are elements below
\* or at the body
RECURSIVE Chain(_, _)
Chain(d, n) ==
    IF n = 0 THEN <<>> ELSE <<n>> \o Chain(d, ParentElement(d, n))

\* the nearest ancestor-or-self element of the start node whose display is
\* block, flex, grid or list-item, 0 when the body comes first or none is
BlockAncestor(d, sel) ==
    LET chain == Chain(d, sel)
        stops == {i \in 1..Len(chain) :
                     \/ d[chain[i]].isBody
                     \/ (d[chain[i]].kind = "element"
                         /\ d[chain[i]].display \in BlockDisplays)}
        first == CHOOSE i \in stops : \A j \in stops : i <= j
    IN IF sel = 0 \/ stops = {} \/ d[chain[first]].isBody THEN 0
       ELSE chain[first]

\* the following sibling elements of n whose trimmed text is longer than 10
Qualifying(d, n) ==
    {j \in (n + 1)..Len(d) :
        /\ d[j].parent = d[n].parent /\ d[j].kind = "element"
        /\ Len(Trim(d[j].text)) > 10}

FirstQualifying(d, n) ==
    IF Qualifying(d, n) = {} THEN None
    ELSE Some(truncate(d[CHOOSE j \in Qualifying(d, n) :
                             \A k \in Qualifying(d, n) : j <= k].text))

\* C20: the extraction walks from the selection's start node up to the
\* nearest ancestor-or-self element whose display is block, flex, grid or
\* list-item, and returns the truncated trimmed text of the first following
\* sibling element of it whose trimmed text is longer than 10 characters,
\* when that block element is an HTML element; it returns nothing without a
\* selection, when the walk reaches the body first, when the block element
\* is not an HTML element, or when no following sibling qualifies
C20_SiblingText ==
    selPc = "done" =>
        LET b == BlockAncestor(dom, selection)
        IN siblingText = IF b = 0 \/ ~dom[b].isHtml THEN None
                         ELSE FirstQualifying(dom, b)

\* the selection starts in the text of an inline span, the walk passes the
\* span and stops at the heading, and the text comes from the heading's
\* second following sibling, the first one being too short
C20_Witness ==
    /\ selPc = "done"
    /\ selection = 7
    /\ BlockAncestor(dom, selection) = 4
    /\ siblingText # None
    /\ Len(Trim(dom[8].text)) <= 10
    /\ siblingText = Some(Trim(dom[9].text))

\* C20 as stated: whatever kind of element the block-level element is
C20_Original ==
    selPc = "done" =>
        siblingText = IF BlockAncestor(dom, selection) = 0 THEN None
                      ELSE FirstQualifying(dom, BlockAncestor(dom, selection))

----------------------------------------------------------------------------
\* The events the popup hands to createEvent

\* the day a date input's value names
DayOf(v) == ParseDate(IF IsLongYearDate(v) THEN <<PLUS, ZERO>> \o v ELSE v).days

\* the data model's invariant on a CalendarEvent: both ends are dates, a
\* timed event ends strictly after its start, an all-day event on or after it
EventInvariant(ev) ==
    /\ IsValidDate(ev.start) /\ IsValidDate(ev.end)
    /\ IF ev.allDay THEN DayOf(ev.end) >= DayOf(ev.start)
       ELSE ~TimeLeq(ParseDate(ev.end), ParseDate(ev.start))

\* the same invariant on what the inputs hold
InputsValid(f) ==
    /\ IsValidDate(f.start) /\ IsValidDate(f.end)
    /\ IF f.allDay THEN DayOf(f.end) >= DayOf(f.start)
       ELSE ~TimeLeq(LocalTime(f.end), LocalTime(f.start))

\* the runs of the submit handler that went past getSettings() with settings
PastSettings ==
    {h \in 1..Len(handlers) : handlers[h].pc # "getSettings" /\ settings # NoSettings}

HandedEventsValid ==
    \A h \in 1..Len(handlers) :
        handlers[h].event # None => EventInvariant(handlers[h].event[1])

InvalidInputsRejected ==
    ~InputsValid(form) =>
        /\ requests = <<>>
        /\ PastSettings # {} =>
               statusLine.display = "block" /\ statusLine.className = "error"

\* C25: every event handed to createEvent satisfies the data model's
\* invariant (a timed event ends strictly after its start, an all-day event
\* on or after it), and a submit whose inputs violate it issues no HTTP
\* request and shows an error status
C25_EventInvariant == HandedEventsValid /\ InvalidInputsRejected

----------------------------------------------------------------------------
\* The loading overlay

\* some run of the handler waits for getSettings(): SubmitContinue is enabled
AwaitsSettings == \E h \in 1..Len(handlers) : handlers[h].pc = "getSettings"

\* a promise the handler awaits is settled in the end: getSettings() reads
\* local storage, and the fetch of createEvent is answered or fails.  The
\* first conjunct is weak fairness of SubmitContinue, written with the
\* condition under which the action is enabled
PopupFairness ==
    /\ \/ []<>~AwaitsSettings
       \/ []<><<\E h \in 1..Len(handlers), id \in Uids, parses \in BOOLEAN :
                     SubmitContinue(h, id, ClientNow, parses)>>_vars
    /\ WF_vars(\E h \in 1..Len(handlers), res \in PopupFetchResults :
                   SubmitSettle(h, res))

SpecPopupLive == PopupInit /\ [][PopupNext]_vars /\ PopupFairness

\* C27: whenever the loading overlay is shown, it is hidden again later,
\* whatever the outcome of the submit: success, HTTP error status, network
\* failure, or start/end values that cannot be parsed as dates
C27_OverlayHidden == loading ~> ~loading

----------------------------------------------------------------------------
\* C30: truncateText handed its own result returns it unchanged, its result
\* is never longer than the maximum plus one character, and the two copies
\* injected into the page (truncate in the description extraction, the
\* inline truncation of the sibling loop) return what truncateText returns
\* with the maximum 500
C30_Truncate ==
    /\ truncPc = "truncateText" =>
           /\ Len(truncated) <= maxArg + 1
           /\ again # None => again[1] = truncated
    /\ truncPc \in {"truncate", "inline"} =>
           truncated = truncateText(rawText, MAX_DESCRIPTION_LENGTH)

\* a text of 600 characters with a space at 480 was cut at the space by the
\* inline copy
C30_Witness ==
    /\ truncPc = "inline"
    /\ Len(rawText) > MAX_LEN
    /\ Len(truncated) < MAX_LEN


----------------------------------------------------------------------------
\* The popup's start and end inputs and its all-day checkbox
\* (src/popup/index.ts, DOMContentLoaded handler and applySuggestion;
\* src/lib/description.ts, toLocalIsoString and restoreDateTime)

S_DATE == "date"
S_DATETIME_LOCAL == "datetime-local"

\* the popup's local time zone is two hours east of UTC (S_LOCAL_ZONE)
LocalOffsetSecs == 7200

\* new Date(date.getTime() + n * 1000)
AddSecs(tv, n) ==
    [days |-> tv.days + ((tv.secs + n) \div 86400),
     secs |-> (tv.secs + n) % 86400,
     ms |-> tv.ms]

\* getTimezoneOffset() is -120 in that zone, so the instant moves two hours
\* on before toISOString cuts it after the minutes
toLocalIsoString(date) == Slice(ToISOString(AddSecs(date, LocalOffsetSecs)), 0, 16)

\* setMinutes(0, 0, 0) and setHours(getHours() + 1): the offset is a whole
\* number of hours, so the local hour starts where the UTC hour starts
NextWholeHour(tv) ==
    AddSecs([days |-> tv.days, secs |-> (tv.secs \div 3600) * 3600, ms |-> 0], 3600)

\* new Date().toISOString().slice(0, 10)
TodayStr(tv) == Slice(ToISOString(tv), 0, 10)

\* "T09:00"
S_T_NINE == <<UPPER_T, ZERO, 57, COLON, ZERO, ZERO>>

\* new Date(`${dateOnly}T09:00:00`) is a valid date: a ten-character date
\* is ISO, an eleven-character one (five-digit year) is left to the engine's
\* own parser, anything else (a datetime-local value) is not a date
RestoreParses(dateOnly, parses) ==
    Len(dateOnly) = 10 \/ (IsLongYearDate(dateOnly) /\ parses)

\* restoreDateTime(dateOnly).start, where it is a valid date
RestoreStart(dateOnly, tv) ==
    IF dateOnly = TodayStr(tv) THEN NextWholeHour(tv)
    ELSE IF IsLongYearDate(dateOnly)
         THEN ParseDate(<<PLUS, ZERO>> \o dateOnly \o S_T_NINE \o S_LOCAL_ZONE)
         ELSE ParseDate(dateOnly \o S_T_NINE \o S_LOCAL_ZONE)

\* the value sanitization of an input: a value that is not a valid string
\* of the input's type becomes the empty string
ValidFor(type, v) ==
    IF type = S_DATE
    THEN (Len(v) = 10 /\ v[5] = DASH) \/ (Len(v) = 11 /\ v[6] = DASH)
    ELSE Len(v) = 16 /\ v[5] = DASH /\ v[11] = UPPER_T
Sanitize(type, v) == IF ValidFor(type, v) THEN v ELSE <<>>

\* the suggestion chips of the popup: start, and end or none
InputSuggestions ==
    {[start |-> D_A, end |-> None],
     [start |-> D_B, end |-> Some(D_C)]}

\* what the user can type into an input of a type
EditValues(type) ==
    IF type = S_DATE THEN {<<>>, D_B, D_E, TodayStr(ClientNow), D_Y10K}
    ELSE {<<>>, L_NINE, L_TEN}

\* the popup as it is parsed: no box checked, both inputs datetime-local
\* (the values the handler assigns at lines 412 and 416 are datetime-local
\* values), the DOMContentLoaded handler waiting for getSettings()
InputsInit ==
    /\ FoldOff /\ EscOff /\ IcsOff /\ ClientOff
    /\ ServerOff /\ PopupOff /\ PageOff /\ TruncOff /\ DescOff /\ SelOff
    /\ OptionsOff
    /\ ContextOff
    /\ ChipOff
    /\ inputsPc = "loading"
    /\ allDayChecked = FALSE
    /\ startInputType = S_DATETIME_LOCAL /\ endInputType = S_DATETIME_LOCAL
    /\ startInputValue = <<>> /\ endInputValue = <<>>

inputRest ==
    <<foldVars, escVars, icsVars, clientVars, serverVars, popupVars, pageVars,
      truncVars, descVars, selVars,
      optionsVars,
      contextVars,
      chipVars>>

\* getSettings() resolves: without settings the form is hidden; with them
\* the default times are set and the change listener is registered
InputsLoaded(hasSettings, tv) ==
    /\ inputsPc = "loading"
    /\ IF hasSettings
       THEN /\ inputsPc' = "wired"
            /\ startInputValue' =
                   Sanitize(startInputType, toLocalIsoString(NextWholeHour(tv)))
            /\ endInputValue' =
                   Sanitize(endInputType,
                            toLocalIsoString(AddSecs(NextWholeHour(tv), 3600)))
       ELSE /\ inputsPc' = "hidden"
            /\ UNCHANGED <<startInputValue, endInputValue>>
    /\ UNCHANGED <<allDayChecked, startInputType, endInputType, inputRest>>

\* the change listener, the box now checked
AllDayOn(tv) ==
    LET dateOnly == IF startInputValue # <<>> THEN Slice(startInputValue, 0, 10)
                    ELSE TodayStr(tv)
    IN /\ startInputType' = S_DATE /\ endInputType' = S_DATE
       /\ startInputValue' = Sanitize(S_DATE, dateOnly)
       /\ endInputValue' = Sanitize(S_DATE, dateOnly)

\* the change listener, the box now unchecked: toLocalIsoString throws on an
\* invalid date after the type of the start input was set, and the rest of
\* the listener is not run
AllDayOff(selectedDate, tv, parses) ==
    IF RestoreParses(selectedDate, parses)
    THEN /\ startInputType' = S_DATETIME_LOCAL /\ endInputType' = S_DATETIME_LOCAL
         /\ startInputValue' =
                Sanitize(S_DATETIME_LOCAL,
                         toLocalIsoString(RestoreStart(selectedDate, tv)))
         /\ endInputValue' =
                Sanitize(S_DATETIME_LOCAL,
                         toLocalIsoString(AddSecs(RestoreStart(selectedDate, tv), 3600)))
    ELSE /\ startInputType' = S_DATETIME_LOCAL
         /\ startInputValue' = Sanitize(S_DATETIME_LOCAL, startInputValue)
         /\ UNCHANGED <<endInputType, endInputValue>>

\* the user clicks the all-day box: the box flips, and the change event
\* reaches the listener if one is registered
ToggleAllDay(tv, parses) ==
    /\ inputsPc \in {"loading", "wired"}
    /\ allDayChecked' = ~allDayChecked
    /\ IF inputsPc = "loading"
       THEN UNCHANGED <<startInputType, endInputType, startInputValue, endInputValue>>
       ELSE IF ~allDayChecked
            THEN AllDayOn(tv)
            ELSE AllDayOff(IF startInputValue # <<>> THEN startInputValue
                           ELSE TodayStr(tv), tv, parses)
    /\ UNCHANGED <<inputsPc, inputRest>>

\* the user types a value into the start or the end input
EditStart(v) ==
    /\ inputsPc \in {"loading", "wired"}
    /\ v \in EditValues(startInputType)
    /\ startInputValue' = v
    /\ UNCHANGED <<inputsPc, allDayChecked, startInputType, endInputType,
                   endInputValue, inputRest>>

EditEnd(v) ==
    /\ inputsPc \in {"loading", "wired"}
    /\ v \in EditValues(endInputType)
    /\ endInputValue' = v
    /\ UNCHANGED <<inputsPc, allDayChecked, startInputType, endInputType,
                   startInputValue, inputRest>>

\* applySuggestion, called from the click on a chip
ApplySuggestion(s) ==
    /\ inputsPc = "wired"
    /\ allDayChecked' = FALSE
    /\ startInputType' = IF allDayChecked THEN S_DATETIME_LOCAL ELSE startInputType
    /\ endInputType' = IF allDayChecked THEN S_DATETIME_LOCAL ELSE endInputType
    /\ startInputValue' =
           Sanitize(startInputType', toLocalIsoString(ParseDate(s.start)))
    /\ endInputValue' =
           Sanitize(endInputType',
                    toLocalIsoString(IF s.end # None THEN ParseDate(s.end[1])
                                     ELSE AddSecs(ParseDate(s.start), 3600)))
    /\ UNCHANGED <<inputsPc, inputRest>>

InputsNext ==
    \/ \E hasSettings \in BOOLEAN : InputsLoaded(hasSettings, ClientNow)
    \/ \E parses \in BOOLEAN : ToggleAllDay(ClientNow, parses)
    \/ \E v \in EditValues(S_DATE) \cup EditValues(S_DATETIME_LOCAL) : EditStart(v)
    \/ \E v \in EditValues(S_DATE) \cup EditValues(S_DATETIME_LOCAL) : EditEnd(v)
    \/ \E s \in InputSuggestions : ApplySuggestion(s)

SpecInputs == InputsInit /\ [][InputsNext]_vars

\* an input's value fits what an event of that kind carries: a date for an
\* all-day event, a local date and time otherwise (or nothing typed yet)
CarriesDate(v) == v = <<>> \/ ValidFor(S_DATE, v)
CarriesInstant(v) == v = <<>> \/ ValidFor(S_DATETIME_LOCAL, v)

\* C28: in every state of the popup, after any sequence of all-day toggles
\* and suggestion applications, the start and end inputs are both of type
\* "date" exactly when the all-day box is checked and both "datetime-local"
\* otherwise, so an all-day event carries date values and a timed event
\* carries instants
C28_TypesFollowCheckbox ==
    inputsPc # "off" =>
        /\ (startInputType = S_DATE /\ endInputType = S_DATE) <=> allDayChecked
        /\ (startInputType = S_DATETIME_LOCAL /\ endInputType = S_DATETIME_LOCAL)
               <=> ~allDayChecked
        /\ allDayChecked => CarriesDate(startInputValue) /\ CarriesDate(endInputValue)
        /\ ~allDayChecked =>
               CarriesInstant(startInputValue) /\ CarriesInstant(endInputValue)


----------------------------------------------------------------------------
\* The options page (src/options/index.ts): the submit handler of the
\* settings form, and saveSettings (src/lib/storage.ts)

MaxOptionSubmits == 2

\* "user", " user " and "secret "
N_USER == <<117, 115, 101, 114>>
N_USER_SPACED == <<SP>> \o N_USER \o <<SP>>
N_SECRET == <<115, 101, 99, 114, 101, 116, SP>>

\* what the user can have in the three inputs
OptionsForms ==
    { [serverUrl |-> u, username |-> n, password |-> N_SECRET] :
        u \in {URL_NO_SLASH, <<SP>> \o URL_SLASH}, n \in {N_USER, N_USER_SPACED} }

\* a plausible slip: the settings are read from the inputs again when they
\* are saved
SettingsToSave_Reread(run, f) ==
    [serverUrl |-> Trim(f.serverUrl), username |-> Trim(f.username),
     password |-> f.password]

\* saveSettings(settings): the object built before the check
SettingsToSave(run, f) == run.settings

\* the settings object of the handler: URL and user name trimmed
TrimmedSettings(f) ==
    [serverUrl |-> Trim(f.serverUrl), username |-> Trim(f.username),
     password |-> f.password]

\* "Settings saved and connection verified!" and the two error lines
SavedStatus == [type |-> "success", text |-> "saved", shown |-> TRUE]
NoConnectionStatus == [type |-> "error", text |-> "could not connect", shown |-> TRUE]
UnexpectedStatus == [type |-> "error", text |-> "unexpected error", shown |-> TRUE]
HiddenStatus == [type |-> "", text |-> "", shown |-> FALSE]

OptionsInit ==
    /\ FoldOff /\ EscOff /\ IcsOff /\ ClientOff
    /\ ServerOff /\ PopupOff /\ PageOff /\ TruncOff /\ DescOff /\ SelOff
    /\ InputOff
    /\ ContextOff
    /\ ChipOff
    /\ optionsForm \in OptionsForms
    /\ storedSettings \in {None, Some(TrimmedSettings(
                               [serverUrl |-> URL_SLASH, username |-> N_USER,
                                password |-> N_SECRET]))}
    /\ saveBtnDisabled = FALSE
    /\ optionsStatus = HiddenStatus
    /\ optionsHandlers = <<>>
    /\ statusTimers = 0

optionsRest ==
    <<foldVars, escVars, icsVars, clientVars, serverVars, popupVars, pageVars,
      truncVars, descVars, selVars, inputVars,
      contextVars,
      chipVars>>

\* the user changes what the inputs hold
OptionsEdit(f) ==
    /\ f # optionsForm
    /\ optionsForm' = f
    /\ UNCHANGED <<storedSettings, saveBtnDisabled, optionsStatus,
                   optionsHandlers, statusTimers, optionsRest>>

\* the submit handler up to `await client.checkConnection()`
OptionsSubmit ==
    /\ Len(optionsHandlers) < MaxOptionSubmits
    /\ saveBtnDisabled' = TRUE
    /\ optionsStatus' = [optionsStatus EXCEPT !.shown = FALSE]
    /\ optionsHandlers' =
           Append(optionsHandlers,
                  [settings |-> TrimmedSettings(optionsForm),
                   fetch |-> CheckConnectionRequest(TrimmedSettings(optionsForm)),
                   isConnected |-> Pending,
                   pc |-> "checkConnection"])
    /\ UNCHANGED <<optionsForm, storedSettings, statusTimers, optionsRest>>

\* checkConnection settles: on true the handler calls saveSettings and
\* waits for it, on false it shows the error and the finally block runs
OptionsChecked(h, res) ==
    /\ optionsHandlers[h].pc = "checkConnection"
    /\ IF CheckConnectionOutcome(res) = Fulfilled("true")
       THEN /\ optionsHandlers' =
                   [optionsHandlers EXCEPT ![h].isConnected = CheckConnectionOutcome(res),
                                           ![h].pc = "saveSettings"]
            /\ UNCHANGED <<saveBtnDisabled, optionsStatus>>
       ELSE /\ optionsHandlers' =
                   [optionsHandlers EXCEPT ![h].isConnected = CheckConnectionOutcome(res),
                                           ![h].pc = "done"]
            /\ optionsStatus' = NoConnectionStatus
            /\ saveBtnDisabled' = FALSE
    /\ UNCHANGED <<optionsForm, storedSettings, statusTimers, optionsRest>>

\* browser.storage.local.set settles: the settings are stored and the
\* success line is shown with its timer, or the promise rejects and the
\* catch block shows the error; the finally block runs in both cases
OptionsSaved(h, ok) ==
    /\ optionsHandlers[h].pc = "saveSettings"
    /\ optionsHandlers' = [optionsHandlers EXCEPT ![h].pc = "done"]
    /\ IF ok
       THEN /\ storedSettings' = Some(SettingsToSave(optionsHandlers[h], optionsForm))
            /\ optionsStatus' = SavedStatus
            /\ statusTimers' = statusTimers + 1
       ELSE /\ optionsStatus' = UnexpectedStatus
            /\ UNCHANGED <<storedSettings, statusTimers>>
    /\ saveBtnDisabled' = FALSE
    /\ UNCHANGED <<optionsForm, optionsRest>>

\* the timer of a success line fires: statusDiv.style.display = "none"
StatusTimer ==
    /\ statusTimers > 0
    /\ statusTimers' = statusTimers - 1
    /\ optionsStatus' = [optionsStatus EXCEPT !.shown = FALSE]
    /\ UNCHANGED <<optionsForm, storedSettings, saveBtnDisabled,
                   optionsHandlers, optionsRest>>

OptionsNext ==
    \/ \E f \in OptionsForms : OptionsEdit(f)
    \/ OptionsSubmit
    \/ \E h \in 1..Len(optionsHandlers), res \in FetchResults : OptionsChecked(h, res)
    \/ \E h \in 1..Len(optionsHandlers), ok \in BOOLEAN : OptionsSaved(h, ok)
    \/ StatusTimer

SpecOptions == OptionsInit /\ [][OptionsNext]_vars

\* the run whose step this is: the one that reaches "done" in it
FinishesIn(h) ==
    /\ h <= Len(optionsHandlers)
    /\ optionsHandlers[h].pc # "done"
    /\ optionsHandlers'[h].pc = "done"

\* the storage changes only in the step of a run whose check returned true
\* for a PROPFIND built from the settings now stored
WrittenAfterCheck ==
    storedSettings' # storedSettings =>
        \E h \in 1..Len(optionsHandlers) :
            /\ FinishesIn(h)
            /\ optionsHandlers[h].isConnected = Fulfilled("true")
            /\ storedSettings' # None
            /\ optionsHandlers[h].fetch = CheckConnectionRequest(storedSettings'[1])
            /\ storedSettings'[1] = optionsHandlers[h].settings

\* a run whose check did not return true, or whose save failed, leaves the
\* storage as it was; every run that finishes enables the button
FinishedRuns ==
    \A h \in 1..Len(optionsHandlers) :
        FinishesIn(h) =>
            /\ ~saveBtnDisabled'
            /\ (optionsHandlers'[h].isConnected # Fulfilled("true")
                \/ optionsStatus' = UnexpectedStatus)
                   => storedSettings' = storedSettings

\* C29: the options page writes settings to storage only after
\* checkConnection returned true for exactly those settings; when the check
\* returns false or an error occurs the stored settings stay as they were,
\* and the save button is enabled again whenever the handler finishes
C29_SaveAfterCheck == [][WrittenAfterCheck /\ FinishedRuns]_vars

\* a run saved settings that differ from what the inputs hold by then, and
\* another run left the storage alone after a failed check
C29_Witness ==
    /\ \E h \in 1..Len(optionsHandlers) :
           /\ optionsHandlers[h].pc = "done"
           /\ optionsHandlers[h].isConnected = Fulfilled("true")
           /\ storedSettings = Some(optionsHandlers[h].settings)
           /\ optionsHandlers[h].settings # TrimmedSettings(optionsForm)
    /\ \E h \in 1..Len(optionsHandlers) :
           /\ optionsHandlers[h].pc = "done"
           /\ optionsHandlers[h].isConnected = Fulfilled("false")
    /\ ~saveBtnDisabled


----------------------------------------------------------------------------
\* The context-menu flow: the background's contextMenus.onClicked handler
\* (src/background/index.ts), and in the popup (src/popup/index.ts) the
\* storage.onChanged listener and the DOMContentLoaded handler up to the
\* page scrape

MaxClicks == 1
MaxClock == 10000

\* "less than 10s old"
FreshMs == 10000
\* the step of the clock
TickMs == 5000

\* "https://example.org/events/42/more", the link under the pointer
U_LINK == U_SHORT \o <<SLASH, 109, 111, 114, 101>>
\* "More", its text
T_LINK == <<77, 111, 114, 101>>
\* "Open day", the og:title of the page
T_OG == <<79, 112, 101, 110, 32, 100, 97, 121>>

\* the tab the click happened in, and the active tab the popup finds
ActiveTab == [title |-> T_SHORT, url |-> U_SHORT, id |-> 7]

\* info and tab of a click: on a link, on selected text, and on selected
\* text where no tab is passed
ClickInfos ==
    { [selectionText |-> <<>>, linkUrl |-> Some(U_LINK), linkText |-> T_LINK,
       pageUrl |-> U_SHORT, tab |-> Some(ActiveTab)],
      [selectionText |-> S_ELEVEN, linkUrl |-> None, linkText |-> <<>>,
       pageUrl |-> U_SHORT, tab |-> Some(ActiveTab)],
      [selectionText |-> S_ELEVEN, linkUrl |-> None, linkText |-> <<>>,
       pageUrl |-> U_SHORT, tab |-> None] }

\* what the function injected by extractSelectionSiblingText returns
SiblingResults == {<<>>, D_TEXT}

\* what the scrape returns: null, or title and description
ScrapeResults ==
    { None, Some([title |-> T_OG, description |-> D_TEXT]),
      Some([title |-> <<>>, description |-> <<>>]) }

\* the ContextMenuData of a click, written at time t
ContextMenuData(info, t) ==
    LET tabTitle == IF info.tab # None THEN info.tab[1].title ELSE <<>>
    IN [url |-> IF Truthy(info.linkUrl) THEN info.linkUrl ELSE Some(info.pageUrl),
        title |-> IF Truthy(info.linkUrl)
                  THEN (IF info.linkText # <<>> THEN info.linkText ELSE tabTitle)
                  ELSE tabTitle,
        selection |-> info.selectionText,
        timestamp |-> t]

\* info.selectionText && tab?.id
StartsExtraction(info) ==
    info.selectionText # <<>> /\ info.tab # None /\ info.tab[1].id # 0

\* a plausible slip: the age is not looked at
Fresh_Always(timestamp, t) == TRUE

\* Date.now() - timestamp < 10000
Fresh(timestamp, t) == t - timestamp < FreshMs

\* the title the context data gives, or the one there is
ContextTitle(data, old) ==
    IF data.selection # <<>> THEN truncateText(data.selection, 100)
    ELSE IF data.title # <<>> THEN data.title ELSE old

\* the URL the context data gives, or the one there is
ContextUrl(data, old) == IF Truthy(data.url) THEN data.url[1] ELSE old

KeyContext == "contextMenuData"
KeySibling == "contextMenuSiblingText"

EmptyStorage == [contextMenuData |-> None, contextMenuSiblingText |-> None]

ContextInit ==
    /\ FoldOff /\ EscOff /\ IcsOff /\ ClientOff
    /\ ServerOff /\ PopupOff /\ PageOff /\ TruncOff /\ SelOff
    /\ InputOff /\ OptionsOff
    /\ ChipOff
    /\ descInput = <<>> /\ urlInput = <<>> /\ applied = <<>>
    /\ clicks = <<>>
    /\ storageLocal = EmptyStorage
    /\ pendingSets = <<>>
    /\ extractions = <<>>
    /\ popupFocus = FALSE
    /\ changes = <<>>
    /\ domPc = "closed"
    /\ got = None
    /\ isContextDataLoaded = FALSE
    /\ titleInput = <<>>
    /\ clock = 0
    /\ fills = <<>>

contextRest ==
    <<foldVars, escVars, icsVars, clientVars, serverVars, popupVars, pageVars,
      truncVars, selVars, inputVars, optionsVars, applied,
      chipVars>>

\* Date.now() moves on
Tick ==
    /\ clock + TickMs <= MaxClock
    /\ clock' = clock + TickMs
    /\ UNCHANGED <<clicks, storageLocal, pendingSets, extractions, popupFocus,
                   changes, domPc, got, isContextDataLoaded, titleInput, fills,
                   descInput, urlInput, contextRest>>

\* contextMenus.onClicked for "send-to-cal-ctx": the handler runs to its
\* end in one piece; the user is on the page, its selection active
ContextClick(info) ==
    /\ Len(clicks) < MaxClicks
    /\ clicks' = Append(clicks,
           [info |-> info,
            called |-> <<"storage.local.set", "openPopup">>
                       \o (IF StartsExtraction(info)
                           THEN <<"extractSelectionSiblingText">> ELSE <<>>)])
    /\ pendingSets' = Append(pendingSets,
           [key |-> KeyContext, value |-> ContextMenuData(info, clock)])
    /\ extractions' =
           IF StartsExtraction(info)
           THEN Append(extractions,
                       [click |-> Len(clicks) + 1, pc |-> "injected",
                        result |-> <<>>, focus |-> FALSE, timestamp |-> 0])
           ELSE extractions
    /\ popupFocus' = FALSE
    /\ UNCHANGED <<storageLocal, changes, domPc, got, isContextDataLoaded,
                   titleInput, clock, fills, descInput, urlInput, contextRest>>

\* a storage.local.set of the background is carried out; the popup's
\* listener is told if the popup's script has run
StorageSet ==
    /\ pendingSets # <<>>
    /\ pendingSets' = Tail(pendingSets)
    /\ storageLocal' =
           IF Head(pendingSets).key = KeyContext
           THEN [storageLocal EXCEPT !.contextMenuData = Some(Head(pendingSets).value)]
           ELSE [storageLocal EXCEPT !.contextMenuSiblingText = Some(Head(pendingSets).value)]
    /\ changes' = IF domPc # "closed" THEN Append(changes, Head(pendingSets))
                  ELSE changes
    /\ UNCHANGED <<clicks, extractions, popupFocus, domPc, got,
                   isContextDataLoaded, titleInput, clock, fills, descInput,
                   urlInput, contextRest>>

\* the injected function runs in the tab and the promise of
\* extractSelectionSiblingText resolves with its result; a result that is
\* not empty is written with the time of that moment
SiblingExtracted(e, result) ==
    /\ extractions[e].pc = "injected"
    /\ extractions' = [extractions EXCEPT ![e].pc = "done",
                                          ![e].result = result,
                                          ![e].focus = popupFocus,
                                          ![e].timestamp = clock]
    /\ pendingSets' =
           IF result # <<>>
           THEN Append(pendingSets,
                       [key |-> KeySibling,
                        value |-> [text |-> result, timestamp |-> clock]])
           ELSE pendingSets
    /\ UNCHANGED <<clicks, storageLocal, popupFocus, changes, domPc, got,
                   isContextDataLoaded, titleInput, clock, fills, descInput,
                   urlInput, contextRest>>

\* the popup opens: its script runs (the listener is registered), it takes
\* the focus, and the DOMContentLoaded handler starts with getSettings()
PopupLoads ==
    /\ domPc = "closed"
    /\ domPc' = "getSettings"
    /\ popupFocus' = TRUE
    /\ UNCHANGED <<clicks, storageLocal, pendingSets, extractions, changes, got,
                   isContextDataLoaded, titleInput, clock, fills, descInput,
                   urlInput, contextRest>>

\* the listener's first branch is taken
ListenerTakesContext(c) ==
    c.key = KeyContext /\ ~isContextDataLoaded /\ Fresh(c.value.timestamp, clock)

\* the listener's second branch fills the description
ListenerTakesSibling(c) ==
    c.key = KeySibling /\ Fresh(c.value.timestamp, clock) /\ c.value.text # <<>>

\* one entry of the record of what was put into the form: which data, on
\* which path, whether it was ten seconds old, whether it was written
Fill(kind, by, timestamp, wrote) ==
    [kind |-> kind, by |-> by, stale |-> clock - timestamp >= FreshMs,
     wrote |-> wrote]

\* storage.onChanged for one set of the background (a removal carries no
\* newValue and changes nothing)
StorageChanged ==
    /\ changes # <<>>
    /\ changes' = Tail(changes)
    /\ IF ListenerTakesContext(Head(changes))
       THEN /\ isContextDataLoaded' = TRUE
            /\ titleInput' = ContextTitle(Head(changes).value, titleInput)
            /\ urlInput' = ContextUrl(Head(changes).value, urlInput)
            /\ descInput' = buildDescription(<<>>, Head(changes).value.url)
            /\ storageLocal' = [storageLocal EXCEPT !.contextMenuData = None]
       ELSE IF Head(changes).key = KeySibling
       THEN /\ descInput' =
                   IF ListenerTakesSibling(Head(changes))
                   THEN buildDescription(Head(changes).value.text, OrUndefined(urlInput))
                   ELSE descInput
            /\ storageLocal' = [storageLocal EXCEPT !.contextMenuSiblingText = None]
            /\ UNCHANGED <<isContextDataLoaded, titleInput, urlInput>>
       ELSE UNCHANGED <<isContextDataLoaded, titleInput, urlInput, descInput,
                        storageLocal>>
    /\ fills' = Append(fills,
           Fill(Head(changes).key, "listener", Head(changes).value.timestamp,
                ListenerTakesContext(Head(changes))
                \/ ListenerTakesSibling(Head(changes))))
    /\ UNCHANGED <<clicks, pendingSets, extractions, popupFocus, domPc, got,
                   clock, contextRest>>

\* getSettings() resolves: without settings the handler returns
SettingsRead(hasSettings) ==
    /\ domPc = "getSettings"
    /\ domPc' = IF hasSettings THEN "getContext" ELSE "hidden"
    /\ UNCHANGED <<clicks, storageLocal, pendingSets, extractions, popupFocus,
                   changes, got, isContextDataLoaded, titleInput, clock, fills,
                   descInput, urlInput, contextRest>>

\* a storage.local.get of the handler reads the key
StorageGet ==
    /\ domPc \in {"getContext", "getSibling"}
    /\ got = None
    /\ got' = Some(IF domPc = "getContext" THEN storageLocal.contextMenuData
                   ELSE storageLocal.contextMenuSiblingText)
    /\ UNCHANGED <<clicks, storageLocal, pendingSets, extractions, popupFocus,
                   changes, domPc, isContextDataLoaded, titleInput, clock, fills,
                   descInput, urlInput, contextRest>>

\* the handler goes on with the context data it read; after the awaited
\* remove it does nothing before its next await, so the two are one step
ContextRead ==
    /\ domPc = "getContext"
    /\ got # None
    /\ got' = None
    /\ IF got[1] # None
       THEN fills' = Append(fills,
                Fill(KeyContext, "load", got[1][1].timestamp,
                     ~isContextDataLoaded /\ Fresh(got[1][1].timestamp, clock)))
       ELSE UNCHANGED fills
    /\ IF ~isContextDataLoaded /\ got[1] # None /\ Fresh(got[1][1].timestamp, clock)
       THEN /\ titleInput' = ContextTitle(got[1][1], titleInput)
            /\ urlInput' = ContextUrl(got[1][1], urlInput)
            /\ descInput' = buildDescription(<<>>, got[1][1].url)
            /\ isContextDataLoaded' = TRUE
            /\ storageLocal' = [storageLocal EXCEPT !.contextMenuData = None]
            /\ domPc' = "getSibling"
       ELSE /\ domPc' = "getSibling"
            /\ UNCHANGED <<titleInput, urlInput, descInput, isContextDataLoaded,
                           storageLocal>>
    /\ UNCHANGED <<clicks, pendingSets, extractions, popupFocus, changes, clock,
                   contextRest>>

\* siblingData && Date.now() - siblingData.timestamp < 10000
SiblingIsTaken(data) == data # None /\ Fresh(data[1].timestamp, clock)

\* the handler goes on with the sibling text it read, up to its next await
SiblingRead ==
    /\ domPc = "getSibling"
    /\ got # None
    /\ got' = None
    /\ IF got[1] # None
       THEN fills' = Append(fills,
                Fill(KeySibling, "load", got[1][1].timestamp, SiblingIsTaken(got[1])))
       ELSE UNCHANGED fills
    /\ IF SiblingIsTaken(got[1])
       THEN /\ descInput' = buildDescription(got[1][1].text, OrUndefined(urlInput))
            /\ storageLocal' = [storageLocal EXCEPT !.contextMenuSiblingText = None]
            /\ domPc' = "tabsQuery"
       ELSE /\ domPc' = "tabsQuery"
            /\ UNCHANGED <<descInput, storageLocal>>
    /\ UNCHANGED <<clicks, pendingSets, extractions, popupFocus, changes,
                   isContextDataLoaded, titleInput, urlInput, clock, contextRest>>

\* !isContextDataLoaded && tabs.length > 0 (tabs is none when the query
\* threw)
TabIsTaken(tabs) == ~isContextDataLoaded /\ tabs # None /\ tabs[1] # <<>>

\* tabs.query settles
TabsQueried(tabs) ==
    /\ domPc = "tabsQuery"
    /\ fills' = Append(fills, Fill("tab", "load", clock, TabIsTaken(tabs)))
    /\ IF TabIsTaken(tabs)
       THEN /\ titleInput' = tabs[1][1].title
            /\ urlInput' = tabs[1][1].url
            /\ descInput' = buildDescription(<<>>, Some(tabs[1][1].url))
            /\ domPc' = "scrape"
       ELSE /\ domPc' = "done"
            /\ UNCHANGED <<titleInput, urlInput, descInput>>
    /\ UNCHANGED <<clicks, storageLocal, pendingSets, extractions, popupFocus,
                   changes, got, isContextDataLoaded, clock, contextRest>>

\* a plausible slip: the flag is not looked at again after the scrape
ScrapeIsTaken_NoFlag(response) == response # None

\* response && !isContextDataLoaded (response is none when the script
\* returned null or the call threw)
ScrapeIsTaken(response) == response # None /\ ~isContextDataLoaded

\* scripting.executeScript settles
Scraped(response) ==
    /\ domPc = "scrape"
    /\ domPc' = "done"
    /\ fills' = Append(fills, Fill("scrape", "load", clock, ScrapeIsTaken(response)))
    /\ IF ScrapeIsTaken(response)
       THEN /\ titleInput' = IF response[1].title # <<>> THEN response[1].title
                             ELSE titleInput
            /\ descInput' = IF response[1].description # <<>>
                            THEN buildDescription(response[1].description,
                                                  OrUndefined(ActiveTab.url))
                            ELSE descInput
       ELSE UNCHANGED <<titleInput, descInput>>
    /\ UNCHANGED <<clicks, storageLocal, pendingSets, extractions, popupFocus,
                   changes, got, isContextDataLoaded, clock, urlInput,
                   contextRest>>

ContextNext ==
    \/ Tick
    \/ \E info \in ClickInfos : ContextClick(info)
    \/ StorageSet
    \/ \E e \in 1..Len(extractions), result \in SiblingResults :
           SiblingExtracted(e, result)
    \/ PopupLoads
    \/ StorageChanged
    \/ \E hasSettings \in BOOLEAN : SettingsRead(hasSettings)
    \/ StorageGet
    \/ ContextRead
    \/ SiblingRead
    \/ \E tabs \in {None, Some(<<>>), Some(<<ActiveTab>>)} : TabsQueried(tabs)
    \/ \E response \in ScrapeResults : Scraped(response)

SpecContext == ContextInit /\ [][ContextNext]_vars


----------------------------------------------------------------------------
\* Claims about the context-menu flow

\* nothing is pending any more: every write carried out and delivered,
\* every extraction resolved, the DOMContentLoaded handler at its end
Quiescent ==
    /\ domPc = "done"
    /\ changes = <<>>
    /\ pendingSets = <<>>
    /\ got = None
    /\ \A e \in 1..Len(extractions) : extractions[e].pc = "done"

\* the extractions whose text was written, and is fresh to this moment
FreshSiblings ==
    {e \in 1..Len(extractions) :
        /\ extractions[e].pc = "done"
        /\ extractions[e].result # <<>>
        /\ Fresh(extractions[e].timestamp, clock)}

\* the URL of the context data of a click
ContextUrlOf(k) == ContextMenuData(clicks[k].info, 0).url

\* C22: whatever the order of the onChanged listener, the DOMContentLoaded
\* handler and the background's write of the sibling text, a fresh sibling
\* text ends up in the description, followed by the "Source:" footer with
\* the URL of the context data; it is not lost to the Source-only text and
\* the footer is not missing
C22_SiblingKept ==
    Quiescent =>
        \A e \in FreshSiblings :
            (\A f \in FreshSiblings : f <= e) =>
                descInput = buildDescription(extractions[e].result,
                                             ContextUrlOf(extractions[e].click))


\* the step puts something into the record, and this is what
Records == Len(fills') = Len(fills) + 1
Recorded == fills'[Len(fills')]

\* the entries of the record that wrote context data into the form
ContextFills == {i \in 1..Len(fills) : fills[i].kind = KeyContext /\ fills[i].wrote}

\* C23: context-menu data is put into the form at most once per popup,
\* by the listener or by the handler's own read; once it is in, the tab
\* fill and the scrape of the DOMContentLoaded handler leave title, URL and
\* description as they are
C23_ContextOnce ==
    [][/\ Records /\ Recorded.kind = KeyContext /\ Recorded.wrote
          => ~isContextDataLoaded /\ ContextFills = {}
       /\ Records /\ Recorded.kind \in {"tab", "scrape"} /\ isContextDataLoaded
          => UNCHANGED <<titleInput, urlInput, descInput>>]_vars

\* the scrape came back with a title and a description after the listener
\* had put the context data in, behind the handler's tab fill
C23_Witness ==
    \E i, j, k \in 1..Len(fills) :
        /\ i < j /\ j < k
        /\ fills[i].kind = "tab" /\ fills[i].wrote
        /\ fills[j].kind = KeyContext /\ fills[j].wrote /\ fills[j].by = "listener"
        /\ fills[k].kind = "scrape" /\ ~fills[k].wrote
        /\ titleInput = T_LINK
        /\ descInput = buildDescription(<<>>, Some(U_LINK))

\* C26: context data or sibling text whose timestamp is ten seconds old or
\* older changes no field of the form, on the listener's path and on the
\* DOMContentLoaded path alike
C26_StaleIgnored ==
    [][Records /\ Recorded.kind \in {KeyContext, KeySibling} /\ Recorded.stale
          => UNCHANGED <<titleInput, urlInput, descInput, isContextDataLoaded>>]_vars

\* stale context data and a stale sibling text have been passed over, one on
\* each path, and the form is as the tab fill left it
C26_Witness ==
    /\ \E i, j \in 1..Len(fills) :
           /\ fills[i].kind = KeyContext /\ fills[i].by = "load" /\ fills[i].stale
           /\ fills[j].kind = KeySibling /\ fills[j].by = "listener" /\ fills[j].stale
    /\ domPc = "done"
    /\ titleInput = ActiveTab.title
    /\ descInput = buildDescription(<<>>, Some(ActiveTab.url))


\* the sibling texts on their way to the popup or stored for it
SiblingWrites ==
    {pendingSets[i].value : i \in {j \in 1..Len(pendingSets) : pendingSets[j].key = KeySibling}}
    \cup {changes[i].value : i \in {j \in 1..Len(changes) : changes[j].key = KeySibling}}
    \cup (IF storageLocal.contextMenuSiblingText # None
          THEN {storageLocal.contextMenuSiblingText[1]} ELSE {})

\* an extraction is started only for a click with selected text and a tab id
StartedForSelection ==
    \A e \in 1..Len(extractions) :
        /\ clicks[extractions[e].click].info.selectionText # <<>>
        /\ clicks[extractions[e].click].info.tab # None

\* only a result that is not empty is written
WrittenWhenNonEmpty == \A w \in SiblingWrites : w.text # <<>>

\* the injected function has read the selection before the popup took the
\* focus
ReadWhileSelected ==
    \A e \in 1..Len(extractions) :
        extractions[e].pc = "done" => ~extractions[e].focus

\* C24: the sibling extraction is invoked while the selection is still
\* active, before the popup is opened and can take the focus; it is started
\* only when the click carries selected text and a tab id, and its result is
\* written to storage only when it is not empty
C24_ExtractWhileSelected ==
    StartedForSelection /\ WrittenWhenNonEmpty /\ ReadWhileSelected


----------------------------------------------------------------------------
\* The suggestion chips of the popup (src/popup/index.ts): the two
\* extractions resolve in either order; renderSuggestions fills the list of
\* date chips, showDescriptionSuggestions the list of description chips

\* a chip: what it applies when clicked, and its data-text attribute
DateChip(s) == [suggestion |-> s, text |-> None]
DescriptionChip(s) == [suggestion |-> s, text |-> Some(s.text)]

\* a plausible slip: the date chips are rendered into the list of the
\* description chips
DateListArg_Shared == "descSuggestionsList"

\* the list handed to renderSuggestions
DateListArg == "suggestionsList"

\* renderSuggestions: list.innerHTML = "", then one chip for each suggestion
renderSuggestions(suggestions, list, lists) ==
    [lists EXCEPT ![list] = [i \in 1..Len(suggestions) |-> DateChip(suggestions[i])]]

\* showDescriptionSuggestions: the texts of the chips there are, then a chip
\* appended for each suggestion whose text is not among them yet
RECURSIVE AppendNew(_, _)
AppendNew(list, suggestions) ==
    IF suggestions = <<>> THEN list
    ELSE IF Some(Head(suggestions).text) \in {list[i].text : i \in 1..Len(list)}
    THEN AppendNew(list, Tail(suggestions))
    ELSE AppendNew(Append(list, DescriptionChip(Head(suggestions))),
                   Tail(suggestions))

showDescriptionSuggestions(suggestions, lists) ==
    [lists EXCEPT !.descSuggestionsList = AppendNew(@, suggestions)]

\* pages with dates and descriptions side by side
ChipPages ==
    { Page(j, md, t, me, og, med, c.articles, c.mains) :
        j \in {<<>>, <<Block(<<EventNode(D_C, <<>>, N_TALK),
                               EventWithDescription("string", T_ONE)>>)>>},
        md \in {<<>>, <<MicrodataEvent(TRUE, D_D, <<>>, <<>>, TRUE, D_C, N_CONCERT,
                                       TRUE, T_FOUR, T_ONE)>>},
        t \in TimeDateCases, me \in MetaDateCases, og \in OgCases,
        med \in MetaDescriptionCases, c \in ContainerCases }

ChipInit ==
    /\ FoldOff /\ EscOff /\ IcsOff /\ ClientOff
    /\ ServerOff /\ PopupOff /\ TruncOff /\ DescOff /\ SelOff
    /\ InputOff /\ OptionsOff /\ ContextOff
    /\ page \in ChipPages
    /\ dateSuggestions = <<>>
    /\ descSuggestions = <<>>
    /\ pagePc = "idle"
    /\ chipLists = [suggestionsList |-> <<>>, descSuggestionsList |-> <<>>]
    /\ arrivals = <<>>

chipRest ==
    <<foldVars, escVars, icsVars, clientVars, serverVars, popupVars, truncVars,
      descVars, selVars, inputVars, optionsVars, contextVars>>

\* extractDateSuggestions(activeTabId) resolves
DatesResolved ==
    /\ pagePc \in {"idle", "descriptions"}
    /\ dateSuggestions' = extractDateSuggestions(page)
    /\ pagePc' = IF pagePc = "idle" THEN "dates" ELSE "both"
    /\ chipLists' = IF Len(dateSuggestions') > 0
                    THEN renderSuggestions(dateSuggestions', DateListArg, chipLists)
                    ELSE chipLists
    /\ arrivals' = Append(arrivals, "dates")
    /\ UNCHANGED <<page, descSuggestions, chipRest>>

\* extractDescriptionSuggestions(activeTabId) resolves
DescriptionsResolved ==
    /\ pagePc \in {"idle", "dates"}
    /\ descSuggestions' = extractDescriptionSuggestions(page)
    /\ pagePc' = IF pagePc = "idle" THEN "descriptions" ELSE "both"
    /\ chipLists' = IF Len(descSuggestions') > 0
                    THEN showDescriptionSuggestions(descSuggestions', chipLists)
                    ELSE chipLists
    /\ arrivals' = Append(arrivals, "descriptions")
    /\ UNCHANGED <<page, dateSuggestions, chipRest>>

ChipNext == DatesResolved \/ DescriptionsResolved

SpecChips == ChipInit /\ [][ChipNext]_vars

IsPrefix(s, t) == Len(s) <= Len(t) /\ SubSeq(t, 1, Len(s)) = s

\* C21: whichever of the two extractions resolves first, the chips shown
\* stay where they are when the other one resolves: each list only grows at
\* its end, and no two description chips carry the same text
C21_ChipsOnlyAppended ==
    [][/\ IsPrefix(chipLists.suggestionsList, chipLists'.suggestionsList)
       /\ IsPrefix(chipLists.descSuggestionsList, chipLists'.descSuggestionsList)
       /\ \A i, j \in 1..Len(chipLists'.descSuggestionsList) :
              chipLists'.descSuggestionsList[i].text
                  = chipLists'.descSuggestionsList[j].text => i = j]_vars

\* the dates resolved with description chips on show, and the other way
\* round: both kinds of chips are there
C21_Witness ==
    /\ arrivals = <<"descriptions", "dates">>
    /\ Len(chipLists.descSuggestionsList) >= 2
    /\ Len(chipLists.suggestionsList) >= 1

C21_WitnessDatesFirst ==
    /\ arrivals = <<"dates", "descriptions">>
    /\ Len(chipLists.descSuggestionsList) >= 1
    /\ Len(chipLists.suggestionsList) >= 2

====
